---- MODULE Spec2Model ----
(***************************************************************************)
(* A model of htgl: one Context, the resources created from it, its four   *)
(* binding trackers, the editor / renderer borrow of the Context, and the  *)
(* driver calls each library call issues.                                  *)
(*                                                                         *)
(* Resources are numbered 1, 2, ... in creation order (an index into       *)
(* `resources`); that number is the model's name for the Rust object and   *)
(* is distinct from both its TrackerId and its driver object name.         *)
(* `op`, `calls`, `tlog`, `used` and `last_bound` are history variables: *)
(* they record what the last library call was, which driver calls and      *)
(* tracker calls it made, and what was handed to the renderer and to the   *)
(* driver's bind entry points.                                             *)
(***************************************************************************)
EXTENDS Integers, Sequences, FiniteSets, TLC

\* Bounds of the model.
MaxRes == 2
MaxClones == 1
MaxAttrs == 1
MaxCount == 2
MaxValues == 4

VARIABLES
    resources,        \* Seq of resource records, in creation order
    context_alive,    \* SharedContextState.context_alive
    context_dropped,  \* TRUE once the Context value itself has been dropped
    counter,          \* Context.id_generator.counter
    vbo_tracker,      \* Context.vbo_tracker     (SimpleBindingTracker)
    ubo_tracker,      \* Context.ubo_tracker     (SimpleBindingTracker)
    vao_tracker,      \* Context.vao_tracker     (RenderBindingTracker)
    program_tracker,  \* Context.program_tracker (RenderBindingTracker)
    borrow,           \* the editor or Renderer holding `&mut Context`, if any
    gl,               \* driver binding points: the name last bound to each
    used,             \* history: resources last given to use_vertex_array / use_program
    last_bound,       \* history: per tracker, the resource last passed to Bind::bind
    panicked,         \* TRUE once a call has panicked (the program is over)
    op,               \* history: the last library call
    given,            \* history: the arguments of the last call that set uniform
                      \* values, or of the one the program is going to make
    calls,            \* history: driver calls issued by the last library call
    returned,         \* history: the value the last library call returned, for
                      \* the calls that return information
    tlog,             \* history: tracker calls made by the last library call
    other             \* a second Context of the same program, once created: its
                      \* resources, SharedContextState and id counter

vars == <<resources, context_alive, context_dropped, counter, vbo_tracker,
          ubo_tracker, vao_tracker, program_tracker, borrow, gl, used,
          last_bound, panicked, op, given, calls, returned, tlog, other>>

None == 0

BufferKinds == {"vbo", "ibo", "ubo"}
Kinds == BufferKinds \cup {"vao", "shader", "program"}
TrackerNames == {"vbo_tracker", "ubo_tracker", "vao_tracker", "program_tracker"}
RenderTrackerNames == {"vao_tracker", "program_tracker"}

BindFns == {"BindBuffer", "BindVertexArray", "UseProgram"}
DeleteFns == {"DeleteBuffers", "DeleteVertexArrays", "DeleteShader", "DeleteProgram"}
DrawOps == {"draw_arrays", "draw_elements_u8", "draw_elements_u16", "draw_elements_u32"}

\* One driver call: entry point, binding target (or "" when it has none) and
\* the driver object name passed (0 when the call passes no name), and the
\* other arguments the model keeps.
CallA(fn, target, id, args) == [fn |-> fn, target |-> target, id |-> id, args |-> args]
Call(fn, target, id) == CallA(fn, target, id, <<>>)

RECURSIVE SeqToSet(_)
SeqToSet(s) == IF s = <<>> THEN {} ELSE {Head(s)} \cup SeqToSet(Tail(s))

RECURSIVE SelectCalls(_, _)
SelectCalls(cs, fns) ==
    IF cs = <<>> THEN <<>>
    ELSE IF Head(cs).fn \in fns
         THEN <<Head(cs)>> \o SelectCalls(Tail(cs), fns)
         ELSE SelectCalls(Tail(cs), fns)

Ids(res) == 1..Len(res)
Live(res) == {r \in Ids(res) : ~res[r].dropped}
OfKind(res, k) == {r \in Live(res) : res[r].kind = k}
\* What the user can name in a call: a live resource the user holds a handle to.
Held(res, k) == {r \in OfKind(res, k) : res[r].handles > 0}

-----------------------------------------------------------------------------
(* tracker.rs *)

\* A u32 is kept as the 32-bit two's complement number with the same bits:
\* the values below 2^31 as themselves, and u32::MAX, 2^32 - 1, as -1. The
\* ids are only ever compared for equality.
U32Max == -1

\* a < b as u32 values: those with the top bit set are the larger ones.
U32Less(a, b) == IF (a < 0) = (b < 0) THEN a < b ELSE b < 0

\* TrackerIdGenerator::new_id: what a call can do with the counter at c. The
\* counter after the call is the id returned; `self.counter += 1` at u32::MAX
\* panics in a build with overflow checks and wraps to 0 in a build without.
new_id(c) ==
    IF c = U32Max
    THEN {[panicked |-> TRUE, counter |-> c, id |-> None],
          [panicked |-> FALSE, counter |-> 0, id |-> 0]}
    ELSE {[panicked |-> FALSE, counter |-> c + 1, id |-> c + 1]}

\* Variant of get_id: the tracker keys on the driver's name of the resource.
GetIdDriverName(res, r) == res[r].id

\* Bind::get_id of a resource.
get_id(res, r) == res[r].tracker_id

\* SimpleBindingTracker::new
SimpleBindingTracker_new == [currently_bound |-> 0]

\* Variant of SimpleBindingTracker::bind without the comparison: it always binds.
SimpleBindAlways(t, res, r) ==
    [tracker |-> [t EXCEPT !.currently_bound = get_id(res, r)], bind |-> TRUE]

\* Variant of SimpleBindingTracker::bind that does not record what it bound.
SimpleBindForgets(t, res, r) ==
    [tracker |-> t, bind |-> t.currently_bound # get_id(res, r)]

\* SimpleBindingTracker::bind of resource r on the tracker value t: the tracker
\* afterwards, and whether the resource's Bind::bind is called.
SimpleBindingTracker_bind(t, res, r) ==
    LET id == get_id(res, r)
    IN  IF t.currently_bound # id
        THEN [tracker |-> [t EXCEPT !.currently_bound = id], bind |-> TRUE]
        ELSE [tracker |-> t, bind |-> FALSE]

\* RenderBindingTracker::new
RenderBindingTracker_new ==
    [simple_tracker |-> SimpleBindingTracker_new, bound_for_rendering |-> None]

\* Variant of bind_for_editing that also remembers the resource as the render
\* target.
BindForEditingRetargets(t, res, r) ==
    LET b == SimpleBindingTracker_bind(t.simple_tracker, res, r)
    IN  [tracker |-> [t EXCEPT !.simple_tracker = b.tracker,
                               !.bound_for_rendering = r],
         bind |-> b.bind]

\* RenderBindingTracker::bind_for_editing
RenderBindingTracker_bind_for_editing(t, res, r) ==
    LET b == SimpleBindingTracker_bind(t.simple_tracker, res, r)
    IN  [tracker |-> [t EXCEPT !.simple_tracker = b.tracker], bind |-> b.bind]

\* Variant of bind_for_rendering that remembers the render target only when
\* it has the resource bound.
BindForRenderingWhenBinding(t, res, r) ==
    LET b == SimpleBindingTracker_bind(t.simple_tracker, res, r)
    IN  [tracker |-> [t EXCEPT !.simple_tracker = b.tracker,
                               !.bound_for_rendering =
                                   IF b.bind THEN r ELSE @],
         bind |-> b.bind]

\* RenderBindingTracker::bind_for_rendering. The Rc bookkeeping of
\* `self.bound_for_rendering = Some(resource.clone())` (one more strong
\* reference to r, then the old value is dropped) is done by the caller below.
RenderBindingTracker_bind_for_rendering(t, res, r) ==
    LET b == SimpleBindingTracker_bind(t.simple_tracker, res, r)
    IN  [tracker |-> [t EXCEPT !.simple_tracker = b.tracker,
                               !.bound_for_rendering = r],
         bind |-> b.bind]

\* Variant of restore_rendering_state that calls the binder itself, without
\* the simple tracker.
RestoreBypassesTracker(t, res) ==
    IF t.bound_for_rendering # None
    THEN [tracker |-> t, bind |-> TRUE, target |-> t.bound_for_rendering]
    ELSE [tracker |-> t, bind |-> FALSE, target |-> None]

\* Variant of restore_rendering_state that takes the render target out of the
\* tracker when it restores it.
RestoreTakesTarget(t, res) ==
    IF t.bound_for_rendering # None
    THEN LET b == SimpleBindingTracker_bind(t.simple_tracker, res, t.bound_for_rendering)
         IN  [tracker |-> [t EXCEPT !.simple_tracker = b.tracker,
                                    !.bound_for_rendering = None],
              bind |-> b.bind, target |-> t.bound_for_rendering]
    ELSE [tracker |-> t, bind |-> FALSE, target |-> None]

\* Variant of restore_rendering_state that returns without binding.
RestoreNothing(t, res) == [tracker |-> t, bind |-> FALSE, target |-> None]

\* Variant of restore_rendering_state with a non-owning render target: a
\* target no user handle refers to any more is forgotten and not bound.
RestoreWeak(t, res) ==
    IF t.bound_for_rendering = None
    THEN [tracker |-> t, bind |-> FALSE, target |-> None]
    ELSE IF res[t.bound_for_rendering].handles = 0
    THEN [tracker |-> [t EXCEPT !.bound_for_rendering = None],
          bind |-> FALSE, target |-> None]
    ELSE LET b == SimpleBindingTracker_bind(t.simple_tracker, res, t.bound_for_rendering)
         IN  [tracker |-> [t EXCEPT !.simple_tracker = b.tracker],
              bind |-> b.bind, target |-> t.bound_for_rendering]

\* RenderBindingTracker::restore_rendering_state: `target` is the resource the
\* call binds, None when it returns without binding anything.
RenderBindingTracker_restore_rendering_state(t, res) ==
    IF t.bound_for_rendering # None
    THEN LET b == SimpleBindingTracker_bind(t.simple_tracker, res, t.bound_for_rendering)
         IN  [tracker |-> [t EXCEPT !.simple_tracker = b.tracker],
              bind |-> b.bind, target |-> t.bound_for_rendering]
    ELSE [tracker |-> t, bind |-> FALSE, target |-> None]

\* The currently_bound id and the remembered render target of a tracker value.
CurrentlyBound(name, t) ==
    IF name \in RenderTrackerNames
    THEN t.simple_tracker.currently_bound
    ELSE t.currently_bound

RenderTarget(name, t) ==
    IF name \in RenderTrackerNames THEN t.bound_for_rendering ELSE None

-----------------------------------------------------------------------------
(* The library calls below thread a record `s` through the code they run:   *)
(* the resources, the liveness flag, the four trackers, the driver binding  *)
(* points, and the logs of the call in progress.                            *)

\* Variant of context_alive that does not consult the shared flag.
NotRegistered(s) == TRUE

\* RegistrationHandle::context_alive
context_alive_of(s) == s.context_alive

Emit(s, c) == [s EXCEPT !.calls = Append(@, c)]

BufferTarget(kind) ==
    CASE kind = "vbo" -> "ARRAY_BUFFER"
      [] kind = "ibo" -> "ELEMENT_ARRAY_BUFFER"
      [] kind = "ubo" -> "UNIFORM_BUFFER"

\* The driver bind call that Bind::bind of BufferObject, VertexArray and
\* Program makes for the resource with record rec.
BindCall(rec) ==
    CASE rec.kind \in BufferKinds -> Call("BindBuffer", BufferTarget(rec.kind), rec.id)
      [] rec.kind = "vao" -> Call("BindVertexArray", "VERTEX_ARRAY", rec.id)
      [] rec.kind = "program" -> Call("UseProgram", "PROGRAM", rec.id)

\* Bind::bind: the call is made and the driver's binding point takes the name.
Bind_bind(s, r) ==
    LET c == BindCall(s.resources[r])
    IN  [Emit(s, c) EXCEPT !.gl[c.target] = c.id]

\* Drop of each resource type: the driver delete, only while the context lives.
DropWith(s, r, fn) ==
    IF context_alive_of(s)
    THEN [Emit(s, Call(fn, "", s.resources[r].id))
            EXCEPT !.resources[r].dropped = TRUE, !.resources[r].deleted = @ + 1]
    ELSE [s EXCEPT !.resources[r].dropped = TRUE]

Drop_BufferObject(s, r) == DropWith(s, r, "DeleteBuffers")
Drop_VertexArray(s, r) == DropWith(s, r, "DeleteVertexArrays")
Drop_Shader(s, r) == DropWith(s, r, "DeleteShader")
Drop_Program(s, r) == DropWith(s, r, "DeleteProgram")

Drop_drop(s, r) ==
    LET k == s.resources[r].kind
    IN  CASE k \in BufferKinds -> Drop_BufferObject(s, r)
          [] k = "vao" -> Drop_VertexArray(s, r)
          [] k = "shader" -> Drop_Shader(s, r)
          [] k = "program" -> Drop_Program(s, r)

RECURSIVE AttributeBuffers(_)
AttributeBuffers(attrs) ==
    IF attrs = <<>> THEN <<>>
    ELSE <<Head(attrs).vertex_buffer>> \o AttributeBuffers(Tail(attrs))

\* The handles a resource owns, in the order its fields are dropped.
OwnedHandles(rec) ==
    AttributeBuffers(rec.vertex_attributes)
    \o (IF rec.index_buffer = None THEN <<>> ELSE <<rec.index_buffer>>)
    \o rec.shaders

\* Variant of Rc::clone that shares the pointer without counting it.
RcCloneForgets(s, r) == s

\* Rc::clone of the handle to r.
RcClone(s, r) == [s EXCEPT !.resources[r].strong = @ + 1]

\* Dropping the Rc references rs one after the other: the strong count goes
\* down by one; at zero the resource's drop runs, and then its fields are dropped.
RECURSIVE RcDrop(_, _)
RcDrop(s, rs) ==
    IF rs = <<>> THEN s
    ELSE LET r == Head(rs)
             s1 == [s EXCEPT !.resources[r].strong = @ - 1]
         IN  IF s1.resources[r].strong > 0
             THEN RcDrop(s1, Tail(rs))
             ELSE RcDrop(Drop_drop(s1, r), OwnedHandles(s1.resources[r]) \o Tail(rs))

-----------------------------------------------------------------------------
(* Tracker calls, as made on the Context's trackers.                        *)

\* The entry of `tlog` for one tracker call: the tracker before and after, the
\* resource passed (None for restore_rendering_state), the resource the driver
\* last had bound through this tracker, and the driver calls made meanwhile.
Logged(s0, s1, name, fn, r) ==
    [s1 EXCEPT !.tlog = Append(@,
        [tracker |-> name, fn |-> fn, r |-> r,
         before |-> s0[name], after |-> s1[name],
         prev |-> s0.last_bound[name],
         calls |-> SubSeq(s1.calls, Len(s0.calls) + 1, Len(s1.calls))])]

\* binder.bind(resource), remembering what this tracker had the driver bind.
BinderBind(s, name, r) == [Bind_bind(s, r) EXCEPT !.last_bound[name] = r]

\* The tracker `name` takes the value out.tracker, after the bind if there is one.
Tracked(s, name, r, out) ==
    [(IF out.bind THEN BinderBind(s, name, r) ELSE s) EXCEPT ![name] = out.tracker]

TrackerBind(s, name, r) ==
    Logged(s, Tracked(s, name, r, SimpleBindingTracker_bind(s[name], s.resources, r)),
           name, "bind", r)

TrackerBindForEditing(s, name, r) ==
    Logged(s, Tracked(s, name, r,
                      RenderBindingTracker_bind_for_editing(s[name], s.resources, r)),
           name, "bind_for_editing", r)

\* Variant of bind_for_rendering with a render target the tracker does not
\* own: no Rc is cloned or dropped.
TrackerBindForRenderingBorrows(s, name, r) ==
    LET out == RenderBindingTracker_bind_for_rendering(s[name], s.resources, r)
    IN  Logged(s, Tracked(s, name, r, out), name, "bind_for_rendering", r)

\* bind_for_rendering: the simple bind, then the new Rc clone is stored and the
\* value it replaces is dropped (which may destroy the previous render target).
TrackerBindForRendering(s, name, r) ==
    LET out == RenderBindingTracker_bind_for_rendering(s[name], s.resources, r)
        old == s[name].bound_for_rendering
        s1 == Tracked(s, name, r, out)
        s2 == IF out.tracker.bound_for_rendering = old
              THEN s1
              ELSE RcDrop(RcClone(s1, out.tracker.bound_for_rendering),
                          IF old = None THEN <<>> ELSE <<old>>)
    IN  Logged(s, s2, name, "bind_for_rendering", r)

TrackerRestore(s, name) ==
    LET out == RenderBindingTracker_restore_rendering_state(s[name], s.resources)
        old == s[name].bound_for_rendering
        s1 == Tracked(s, name, out.target, out)
        s2 == IF out.tracker.bound_for_rendering = old
              THEN s1
              ELSE RcDrop(s1, <<old>>)
    IN  Logged(s, s2, name, "restore_rendering_state", None)

\* Variant of an editing bind that leaves the binding as it is.
EditWithoutBind(s, r) == s

\* ContextEditingSupport for Context
bind_vbo_for_editing(s, r) == TrackerBind(s, "vbo_tracker", r)
bind_ubo_for_editing(s, r) == TrackerBind(s, "ubo_tracker", r)
bind_vao_for_editing(s, r) == TrackerBindForEditing(s, "vao_tracker", r)
bind_program_for_editing(s, r) == TrackerBindForEditing(s, "program_tracker", r)

\* ContextRenderingSupport for Context
bind_vao_for_rendering(s, r) == TrackerBindForRendering(s, "vao_tracker", r)
bind_program_for_rendering(s, r) == TrackerBindForRendering(s, "program_tracker", r)

\* Variant of prepare_for_rendering that restores nothing.
PrepareSkipsRestore(s) == s

\* Context::prepare_for_rendering: both render trackers restore their target.
prepare_for_rendering(s) ==
    TrackerRestore(TrackerRestore(s, "vao_tracker"), "program_tracker")

-----------------------------------------------------------------------------
(* Resource construction.                                                   *)

Namespace(kind) ==
    CASE kind \in BufferKinds -> "buffer"
      [] kind = "vao" -> "vertex_array"
      [] kind \in {"shader", "program"} -> "shader_program"

\* The name the driver hands out for a new object of this kind: the lowest name
\* not held by an object it has not been asked to delete, so that the name of a
\* deleted object is recycled at once (the recycling TrackerId exists for).
NamesInUse(res, kind) ==
    {res[r].id : r \in {x \in Ids(res) :
                        /\ Namespace(res[x].kind) = Namespace(kind)
                        /\ res[x].deleted = 0}}

FreeNames(res, kind) ==
    LET free == (1..(Len(res) + 1)) \ NamesInUse(res, kind)
    IN  {CHOOSE n \in free : \A m \in free : n <= m}

\* A resource as new_handle wraps it: one strong reference, held by the user.
NewRecord(kind, tracker_id, id) ==
    [kind |-> kind, id |-> id, tracker_id |-> tracker_id,
     strong |-> 1, handles |-> 1,
     vertex_attributes |-> <<>>, index_buffer |-> None, shaders |-> <<>>,
     dropped |-> FALSE, deleted |-> 0]

Created(s, rec) == [s EXCEPT !.resources = Append(@, rec)]

RECURSIVE RcCloneAll(_, _)
RcCloneAll(s, rs) ==
    IF rs = <<>> THEN s ELSE RcCloneAll(RcClone(s, Head(rs)), Tail(rs))

\* BufferObject::new
BufferObject_new(s, kind, tracker_id, name) ==
    Created(Emit(s, Call("GenBuffers", "", name)), NewRecord(kind, tracker_id, name))

VertexAttributeType ==
    {"Byte", "UnsignedByte", "Short", "UnsignedShort", "Int", "UnsignedInt",
     "HalfFloat", "Float", "Double", "Int2101010Rev", "UnsignedInt2101010Rev"}

\* attribute_to_gl_type
attribute_to_gl_type(attribute_type) ==
    CASE attribute_type = "Byte" -> "BYTE"
      [] attribute_type = "UnsignedByte" -> "UNSIGNED_BYTE"
      [] attribute_type = "Short" -> "SHORT"
      [] attribute_type = "UnsignedShort" -> "UNSIGNED_SHORT"
      [] attribute_type = "Int" -> "INT"
      [] attribute_type = "UnsignedInt" -> "UNSIGNED_INT"
      [] attribute_type = "HalfFloat" -> "HALF_FLOAT"
      [] attribute_type = "Float" -> "FLOAT"
      [] attribute_type = "Double" -> "DOUBLE"
      [] attribute_type = "Int2101010Rev" -> "INT_2_10_10_10_REV"
      [] attribute_type = "UnsignedInt2101010Rev" -> "UNSIGNED_INT_2_10_10_10_REV"

\* Variant of attribute_to_size that takes a half float for a float.
SizeHalfAsFloat(attribute_type) ==
    IF attribute_type \in {"Byte", "UnsignedByte"} THEN 1
    ELSE IF attribute_type \in {"Short", "UnsignedShort"} THEN 2
    ELSE IF attribute_type = "Double" THEN 8
    ELSE 4

\* attribute_to_size
attribute_to_size(attribute_type) ==
    CASE attribute_type = "Byte" -> 1
      [] attribute_type = "UnsignedByte" -> 1
      [] attribute_type = "Short" -> 2
      [] attribute_type = "UnsignedShort" -> 2
      [] attribute_type = "Int" -> 4
      [] attribute_type = "UnsignedInt" -> 4
      [] attribute_type = "HalfFloat" -> 2
      [] attribute_type = "Float" -> 4
      [] attribute_type = "Double" -> 8
      [] attribute_type = "Int2101010Rev" -> 4
      [] attribute_type = "UnsignedInt2101010Rev" -> 4

\* Variant of set_vertex_attribute that describes the attribute against
\* whatever vertex buffer is bound.
SetVertexAttributeUnbound(s, attribute) ==
    LET attribute_type == attribute_to_gl_type(attribute.attribute_type)
        s2 == Emit(s, Call("EnableVertexAttribArray", "", attribute.index))
    IN  Emit(s2, CallA("VertexAttribPointer", "", attribute.index,
                       <<attribute.size, attribute_type, attribute.normalized,
                         attribute.stride, attribute.offset>>))

\* VertexArray::set_vertex_attribute
set_vertex_attribute(s, attribute) ==
    LET s1 == bind_vbo_for_editing(s, attribute.vertex_buffer)
        attribute_type == attribute_to_gl_type(attribute.attribute_type)
        s2 == Emit(s1, Call("EnableVertexAttribArray", "", attribute.index))
    IN  Emit(s2, CallA("VertexAttribPointer", "", attribute.index,
                       <<attribute.size, attribute_type, attribute.normalized,
                         attribute.stride, attribute.offset>>))

RECURSIVE SetVertexAttributes(_, _)
SetVertexAttributes(s, attributes) ==
    IF attributes = <<>> THEN s
    ELSE SetVertexAttributes(set_vertex_attribute(s, Head(attributes)), Tail(attributes))

\* Variant of VertexArray::new that keeps the attributes' buffers without
\* owning them.
VertexArrayNewBorrows(s, tracker_id, attributes, index_buffer, name) ==
    LET s1 == Emit(s, Call("GenVertexArrays", "", name))
        rec == [NewRecord("vao", tracker_id, name) EXCEPT
                    !.vertex_attributes = attributes,
                    !.index_buffer = index_buffer]
        s2 == Created(s1, rec)
        v == Len(s2.resources)
        s3 == bind_vao_for_editing(s2, v)
        s4 == SetVertexAttributes(s3, attributes)
    IN  IF index_buffer # None THEN Bind_bind(s4, index_buffer) ELSE s4

\* VertexArray::new. `attributes.to_vec()` clones every attribute's handle; the
\* index buffer handle is moved in.
VertexArray_new(s, tracker_id, attributes, index_buffer, name) ==
    LET s1 == Emit(s, Call("GenVertexArrays", "", name))
        rec == [NewRecord("vao", tracker_id, name) EXCEPT
                    !.vertex_attributes = attributes,
                    !.index_buffer = index_buffer]
        s2 == Created(RcCloneAll(s1, AttributeBuffers(attributes)), rec)
        v == Len(s2.resources)
        s3 == bind_vao_for_editing(s2, v)
        s4 == SetVertexAttributes(s3, attributes)
    IN  IF index_buffer # None THEN Bind_bind(s4, index_buffer) ELSE s4

\* The first loop of VertexArray::new_single_vbo, from the field with index
\* `index` (the loop's `counter`) on: the attributes pushed and the final offset. `offset` is a
\* u32 and grows by at most 8 * 255 per field, so it stays below 2^32 for
\* every list of fewer than 2105376 fields.
RECURSIVE PushAttributes(_, _, _, _)
PushAttributes(attributes, vertex_buffer, index, offset) ==
    IF attributes = <<>> THEN [full_attributes |-> <<>>, offset |-> offset]
    ELSE LET attr == Head(attributes)
             rest == PushAttributes(Tail(attributes), vertex_buffer, index + 1,
                         offset + attribute_to_size(attr.attribute_type) * attr.size)
         IN  [full_attributes |->
                  <<[index |-> index,
                     size |-> attr.size,
                     attribute_type |-> attr.attribute_type,
                     normalized |-> attr.normalized,
                     stride |-> 0,
                     offset |-> offset,
                     vertex_buffer |-> vertex_buffer]>> \o rest.full_attributes,
              offset |-> rest.offset]

\* Variant of the layout that leaves out the second loop: no stride is set.
SingleVboStrideUnset(attributes, vertex_buffer) ==
    PushAttributes(attributes, vertex_buffer, 0, 0).full_attributes

\* Variant of the layout that does not advance the offset.
SingleVboOffsetStuck(attributes, vertex_buffer) ==
    LET pass == PushAttributes(attributes, vertex_buffer, 0, 0)
    IN  [i \in 1..Len(attributes) |->
            [pass.full_attributes[i] EXCEPT !.stride = pass.offset, !.offset = 0]]

\* The attribute list VertexArray::new_single_vbo builds for the fields
\* (size, attribute_type, normalized) of one vertex buffer.
SingleVboAttributes(attributes, vertex_buffer) ==
    LET pass == PushAttributes(attributes, vertex_buffer, 0, 0)
        stride == pass.offset
    IN  [i \in 1..Len(attributes) |-> [pass.full_attributes[i] EXCEPT !.stride = stride]]

\* VertexArray::new_single_vbo: full_attributes holds one clone of the vertex
\* buffer handle per field; it and the handle passed in are dropped on return.
VertexArray_new_single_vbo(s, tracker_id, attributes, vertex_buffer, index_buffer, name) ==
    LET full_attributes == SingleVboAttributes(attributes, vertex_buffer)
        s1 == RcCloneAll(s, AttributeBuffers(full_attributes))
        s2 == VertexArray_new(s1, tracker_id, full_attributes, index_buffer, name)
    IN  RcDrop(s2, AttributeBuffers(full_attributes) \o <<vertex_buffer>>)

RECURSIVE AttachShaders(_, _, _)
AttachShaders(s, p, shaders) ==
    IF shaders = <<>> THEN s
    ELSE AttachShaders(
            Emit(s, CallA("AttachShader", "", s.resources[p].id,
                          <<s.resources[Head(shaders)].id>>)),
            p, Tail(shaders))

\* Variant of Program::link that reads the link status back after linking.
ProgramLinkChecked(s, p) ==
    Emit(Emit(AttachShaders(s, p, s.resources[p].shaders),
              Call("LinkProgram", "", s.resources[p].id)),
         CallA("GetProgramiv", "", s.resources[p].id, <<"LINK_STATUS">>))

\* Program::link
Program_link(s, p) ==
    Emit(AttachShaders(s, p, s.resources[p].shaders),
         Call("LinkProgram", "", s.resources[p].id))

\* Variant of Program::new that keeps the shaders without owning them.
ProgramNewBorrows(s, tracker_id, shaders, name) ==
    LET s1 == Emit(s, Call("CreateProgram", "", name))
        rec == [NewRecord("program", tracker_id, name) EXCEPT !.shaders = shaders]
        s2 == Created(s1, rec)
    IN  Program_link(s2, Len(s2.resources))

\* Program::new. `shaders.to_vec()` clones every shader handle.
Program_new(s, tracker_id, shaders, name) ==
    LET s1 == Emit(s, Call("CreateProgram", "", name))
        rec == [NewRecord("program", tracker_id, name) EXCEPT !.shaders = shaders]
        s2 == Created(RcCloneAll(s1, shaders), rec)
    IN  Program_link(s2, Len(s2.resources))

\* The two values the driver writes for a boolean: gl::FALSE and gl::TRUE.
GlFalse == 0
GlTrue == 1

\* Shader::get_info_log with Shader::get_info_length
Shader_get_info_log(s, name) ==
    Emit(Emit(s, Call("GetShaderiv", "INFO_LOG_LENGTH", name)),
         Call("GetShaderInfoLog", "", name))

\* Shader::get_compile_status: `compile_status` is what the driver writes.
\* When it is gl::FALSE the info log is fetched and printed, and the call
\* fails ("Compiling failed").
Shader_get_compile_status(s, name, compile_status) ==
    LET s1 == Emit(s, Call("GetShaderiv", "COMPILE_STATUS", name))
    IN  IF compile_status # GlFalse
        THEN s1
        ELSE [Shader_get_info_log(s1, name) EXCEPT !.panicked = TRUE]

\* Shader::compile: the source is set and compiled, and the compile status is
\* read back.
Shader_compile(s, name, compile_status) ==
    LET s1 == Emit(s, Call("ShaderSource", "", name))
        s2 == Emit(s1, Call("CompileShader", "", name))
    IN  Shader_get_compile_status(s2, name, compile_status)

\* Shader::new
Shader_new(s, shader_type, name, compile_status) ==
    LET s1 == Emit(s, Call("CreateShader", shader_type, name))
        s2 == Created(s1, NewRecord("shader", 0, name))
    IN  Shader_compile(s2, name, compile_status)

-----------------------------------------------------------------------------
(* program/uniform.rs: setting uniform values.                              *)

\* A usize is kept at its width as a little-endian sequence of 16-bit limbs,
\* two on a target with 32-bit pointers and four on one with 64-bit pointers.
LimbBase == 65536
PointerWidths == {32, 64}
Limbs(width) == width \div 16

\* The two things about a build that the arithmetic below depends on: the
\* pointer width of the target and whether integer overflow is checked (it
\* panics) or wraps.
Builds == [width : PointerWidths, overflow_checks : BOOLEAN]

USmall(n, width) == [i \in 1..Limbs(width) |-> IF i = 1 THEN n ELSE 0]
UPow2(k, width) ==
    [i \in 1..Limbs(width) |-> IF i = (k \div 16) + 1 THEN 2 ^ (k % 16) ELSE 0]

\* x * e limb by limb, from limb i on with the carry of the limbs below: the
\* product at the width of x, and what was carried out of the top limb.
RECURSIVE MulFrom(_, _, _, _)
MulFrom(x, e, i, carry) ==
    IF i > Len(x) THEN [limbs |-> <<>>, carry |-> carry]
    ELSE LET p == x[i] * e + carry
             rest == MulFrom(x, e, i + 1, p \div LimbBase)
         IN  [limbs |-> <<p % LimbBase>> \o rest.limbs, carry |-> rest.carry]

\* x > y for two usize values of one width.
RECURSIVE GtFrom(_, _, _)
GtFrom(x, y, i) ==
    IF i = 0 THEN FALSE
    ELSE IF x[i] # y[i] THEN x[i] > y[i]
    ELSE GtFrom(x, y, i - 1)

\* `count as i32`: the low 32 bits of the usize, read as a signed number.
as_i32(x) ==
    IF x[2] >= LimbBase \div 2
    THEN (x[2] - LimbBase) * LimbBase + x[1]
    ELSE x[2] * LimbBase + x[1]

SimpleUniformTypeFloat == {"Uniform1f", "Uniform2f", "Uniform3f", "Uniform4f"}
SimpleUniformTypeMatrix ==
    {"Matrix2f", "Matrix3f", "Matrix4f", "Matrix2x3f", "Matrix3x2f",
     "Matrix2x4f", "Matrix4x2f", "Matrix3x4f", "Matrix4x3f"}
SimpleUniformTypeI32 == {"Uniform1i", "Uniform2i", "Uniform3i", "Uniform4i"}
SimpleUniformTypeU32 == {"Uniform1u", "Uniform2u", "Uniform3u", "Uniform4u"}

\* validate_uniform: TRUE when it panics. `values` is the length of the slice.
\* `count * element_count` panics in a build with overflow checks when the
\* product does not fit a usize, and wraps in a build without them.
validate_uniform(count, element_count, values, build) ==
    LET product == MulFrom(count, element_count, 1, 0)
        expected_len == product.limbs
    IN  \/ build.overflow_checks /\ product.carry > 0
        \/ GtFrom(expected_len, values, Len(values))

\* validate_uniform_f32
validate_uniform_f32(count, uniform_type, values, build) ==
    LET element_count ==
            CASE uniform_type = "Uniform1f" -> 1
              [] uniform_type = "Uniform2f" -> 2
              [] uniform_type = "Uniform3f" -> 3
              [] uniform_type = "Uniform4f" -> 4
    IN  validate_uniform(count, element_count, values, build)

\* validate_uniform_matrix
validate_uniform_matrix(count, uniform_type, values, build) ==
    LET element_count ==
            CASE uniform_type = "Matrix2f" -> 2 * 2
              [] uniform_type = "Matrix3f" -> 3 * 3
              [] uniform_type = "Matrix4f" -> 4 * 4
              [] uniform_type = "Matrix2x3f" -> 2 * 3
              [] uniform_type = "Matrix3x2f" -> 3 * 2
              [] uniform_type = "Matrix2x4f" -> 2 * 4
              [] uniform_type = "Matrix4x2f" -> 4 * 2
              [] uniform_type = "Matrix3x4f" -> 3 * 4
              [] uniform_type = "Matrix4x3f" -> 4 * 3
    IN  validate_uniform(count, element_count, values, build)

\* validate_uniform_u32
validate_uniform_u32(count, uniform_type, values, build) ==
    LET element_count ==
            CASE uniform_type = "Uniform1u" -> 1
              [] uniform_type = "Uniform2u" -> 2
              [] uniform_type = "Uniform3u" -> 3
              [] uniform_type = "Uniform4u" -> 4
    IN  validate_uniform(count, element_count, values, build)

\* validate_uniform_i32
validate_uniform_i32(count, uniform_type, values, build) ==
    LET element_count ==
            CASE uniform_type = "Uniform1i" -> 1
              [] uniform_type = "Uniform2i" -> 2
              [] uniform_type = "Uniform3i" -> 3
              [] uniform_type = "Uniform4i" -> 4
    IN  validate_uniform(count, element_count, values, build)

\* What a setter does: it panics in the validation, or it makes its one
\* driver call.
Panics == [panicked |-> TRUE, calls |-> <<>>]
Dispatches(c) == [panicked |-> FALSE, calls |-> <<c>>]

\* uniform_f32
uniform_f32(location, count, uniform_type, values, build) ==
    IF validate_uniform_f32(count, uniform_type, values, build) THEN Panics
    ELSE LET fn == CASE uniform_type = "Uniform1f" -> "Uniform1fv"
                     [] uniform_type = "Uniform2f" -> "Uniform2fv"
                     [] uniform_type = "Uniform3f" -> "Uniform3fv"
                     [] uniform_type = "Uniform4f" -> "Uniform4fv"
         IN  Dispatches(CallA(fn, "", 0, <<location, as_i32(count)>>))

\* uniform_matrix
uniform_matrix(location, count, uniform_type, transpose, values, build) ==
    IF validate_uniform_matrix(count, uniform_type, values, build) THEN Panics
    ELSE LET fn == CASE uniform_type = "Matrix2f" -> "UniformMatrix2fv"
                     [] uniform_type = "Matrix3f" -> "UniformMatrix3fv"
                     [] uniform_type = "Matrix4f" -> "UniformMatrix4fv"
                     [] uniform_type = "Matrix2x3f" -> "UniformMatrix2x3fv"
                     [] uniform_type = "Matrix3x2f" -> "UniformMatrix3x2fv"
                     [] uniform_type = "Matrix2x4f" -> "UniformMatrix2x4fv"
                     [] uniform_type = "Matrix4x2f" -> "UniformMatrix4x2fv"
                     [] uniform_type = "Matrix3x4f" -> "UniformMatrix3x4fv"
                     [] uniform_type = "Matrix4x3f" -> "UniformMatrix4x3fv"
         IN  Dispatches(CallA(fn, "", 0,
                              <<location, as_i32(count), IF transpose THEN 1 ELSE 0>>))

\* uniform_u32
uniform_u32(location, count, uniform_type, values, build) ==
    IF validate_uniform_u32(count, uniform_type, values, build) THEN Panics
    ELSE LET fn == CASE uniform_type = "Uniform1u" -> "Uniform1uiv"
                     [] uniform_type = "Uniform2u" -> "Uniform2uiv"
                     [] uniform_type = "Uniform3u" -> "Uniform3uiv"
                     [] uniform_type = "Uniform4u" -> "Uniform4uiv"
         IN  Dispatches(CallA(fn, "", 0, <<location, as_i32(count)>>))

\* uniform_i32
uniform_i32(location, count, uniform_type, values, build) ==
    IF validate_uniform_i32(count, uniform_type, values, build) THEN Panics
    ELSE LET fn == CASE uniform_type = "Uniform1i" -> "Uniform1iv"
                     [] uniform_type = "Uniform2i" -> "Uniform2iv"
                     [] uniform_type = "Uniform3i" -> "Uniform3iv"
                     [] uniform_type = "Uniform4i" -> "Uniform4iv"
         IN  Dispatches(CallA(fn, "", 0, <<location, as_i32(count)>>))

-----------------------------------------------------------------------------
(* program/uniform.rs and program/attribute.rs: introspection.              *)

\* Variant of uniform_type_from_u32 that knows the float vector types only.
UniformTypeFloatsOnly(gl_type) ==
    CASE gl_type = "FLOAT" -> <<"Float">>
      [] gl_type = "FLOAT_VEC2" -> <<"FloatVec2">>
      [] gl_type = "FLOAT_VEC3" -> <<"FloatVec3">>
      [] gl_type = "FLOAT_VEC4" -> <<"FloatVec4">>
      [] OTHER -> <<"UnrecognizedType", gl_type>>

\* A driver type tag is written by the name of its constant ("FLOAT_VEC2");
\* a tag the library has no constant for is written as its number in
\* hexadecimal ("0x904D"). A variant of the type enums is the tuple of its
\* name and what it carries.
\* uniform_type_from_u32
uniform_type_from_u32(gl_type) ==
    CASE gl_type = "FLOAT" -> <<"Float">>
      [] gl_type = "FLOAT_VEC2" -> <<"FloatVec2">>
      [] gl_type = "FLOAT_VEC3" -> <<"FloatVec3">>
      [] gl_type = "FLOAT_VEC4" -> <<"FloatVec4">>
      [] gl_type = "INT" -> <<"Int">>
      [] gl_type = "INT_VEC2" -> <<"IntVec2">>
      [] gl_type = "INT_VEC3" -> <<"IntVec3">>
      [] gl_type = "INT_VEC4" -> <<"IntVec4">>
      [] gl_type = "UNSIGNED_INT" -> <<"UnsignedInt">>
      [] gl_type = "UNSIGNED_INT_VEC2" -> <<"UnsignedIntVec2">>
      [] gl_type = "UNSIGNED_INT_VEC3" -> <<"UnsignedIntVec3">>
      [] gl_type = "UNSIGNED_INT_VEC4" -> <<"UnsignedIntVec4">>
      [] gl_type = "BOOL" -> <<"Bool">>
      [] gl_type = "BOOL_VEC2" -> <<"BoolVec2">>
      [] gl_type = "BOOL_VEC3" -> <<"BoolVec3">>
      [] gl_type = "BOOL_VEC4" -> <<"BoolVec4">>
      [] gl_type = "FLOAT_MAT2" -> <<"FloatMat2">>
      [] gl_type = "FLOAT_MAT3" -> <<"FloatMat3">>
      [] gl_type = "FLOAT_MAT4" -> <<"FloatMat4">>
      [] gl_type = "FLOAT_MAT2x3" -> <<"FloatMat2x3">>
      [] gl_type = "FLOAT_MAT2x4" -> <<"FloatMat2x4">>
      [] gl_type = "FLOAT_MAT3x2" -> <<"FloatMat3x2">>
      [] gl_type = "FLOAT_MAT3x4" -> <<"FloatMat3x4">>
      [] gl_type = "FLOAT_MAT4x2" -> <<"FloatMat4x2">>
      [] gl_type = "FLOAT_MAT4x3" -> <<"FloatMat4x3">>
      [] gl_type = "SAMPLER_1D" -> <<"Sampler1d">>
      [] gl_type = "SAMPLER_2D" -> <<"Sampler2d">>
      [] gl_type = "SAMPLER_3D" -> <<"Sampler3d">>
      [] gl_type = "SAMPLER_CUBE" -> <<"SamplerCube">>
      [] gl_type = "SAMPLER_1D_SHADOW" -> <<"Sampler1dShadow">>
      [] gl_type = "SAMPLER_2D_SHADOW" -> <<"Sampler2dShadow">>
      [] gl_type = "SAMPLER_1D_ARRAY" -> <<"Sampler1dArray">>
      [] gl_type = "SAMPLER_2D_ARRAY" -> <<"Sampler2dArray">>
      [] gl_type = "SAMPLER_1D_ARRAY_SHADOW" -> <<"Sampler1dArrayShadow">>
      [] gl_type = "SAMPLER_2D_ARRAY_SHADOW" -> <<"Sampler2dArrayShadow">>
      [] gl_type = "SAMPLER_2D_MULTISAMPLE" -> <<"Sampler2dMultisample">>
      [] gl_type = "SAMPLER_2D_MULTISAMPLE_ARRAY" -> <<"Sampler2dMultisampleArray">>
      [] gl_type = "SAMPLER_CUBE_SHADOW" -> <<"SamplerCubeShadow">>
      [] gl_type = "SAMPLER_BUFFER" -> <<"SamplerBuffer">>
      [] gl_type = "SAMPLER_2D_RECT" -> <<"Sampler2dRect">>
      [] gl_type = "SAMPLER_2D_RECT_SHADOW" -> <<"Sampler2dRectShadow">>
      [] gl_type = "INT_SAMPLER_1D" -> <<"IntSampler1d">>
      [] gl_type = "INT_SAMPLER_2D" -> <<"IntSampler2d">>
      [] gl_type = "INT_SAMPLER_3D" -> <<"IntSampler3d">>
      [] gl_type = "INT_SAMPLER_CUBE" -> <<"IntSamplerCube">>
      [] gl_type = "INT_SAMPLER_1D_ARRAY" -> <<"IntSampler1dArray">>
      [] gl_type = "INT_SAMPLER_2D_ARRAY" -> <<"IntSampler2dArray">>
      [] gl_type = "INT_SAMPLER_2D_MULTISAMPLE" -> <<"IntSampler2dMultisample">>
      [] gl_type = "INT_SAMPLER_2D_MULTISAMPLE_ARRAY" -> <<"IntSampler2dMultisampleArray">>
      [] gl_type = "INT_SAMPLER_BUFFER" -> <<"IntSamplerBuffer">>
      [] gl_type = "INT_SAMPLER_2D_RECT" -> <<"IntSampler2dRect">>
      [] gl_type = "UNSIGNED_INT_SAMPLER_1D" -> <<"UnsignedIntSampler1d">>
      [] gl_type = "UNSIGNED_INT_SAMPLER_2D" -> <<"UnsignedIntSampler2d">>
      [] gl_type = "UNSIGNED_INT_SAMPLER_3D" -> <<"UnsignedIntSampler3d">>
      [] gl_type = "UNSIGNED_INT_SAMPLER_CUBE" -> <<"UnsignedIntSamplerCube">>
      [] gl_type = "UNSIGNED_INT_SAMPLER_1D_ARRAY" -> <<"UnsignedIntSampler1dArray">>
      [] gl_type = "UNSIGNED_INT_SAMPLER_2D_ARRAY" -> <<"UnsignedIntSampler2dArray">>
      [] gl_type = "UNSIGNED_INT_SAMPLER_2D_MULTISAMPLE" -> <<"UnsignedIntSampler2dMultisample">>
      [] gl_type = "UNSIGNED_INT_SAMPLER_2D_MULTISAMPLE_ARRAY" -> <<"UnsignedIntSampler2dMultisampleArray">>
      [] gl_type = "UNSIGNED_INT_SAMPLER_BUFFER" -> <<"UnsignedIntSamplerBuffer">>
      [] gl_type = "UNSIGNED_INT_SAMPLER_2D_RECT" -> <<"UnsignedIntSampler2dRect">>
      [] OTHER -> <<"UnrecognizedType", gl_type>>

\* attribute_type_from_u32
attribute_type_from_u32(gl_type) ==
    CASE gl_type = "FLOAT" -> <<"Float">>
      [] gl_type = "FLOAT_VEC2" -> <<"FloatVec2">>
      [] gl_type = "FLOAT_VEC3" -> <<"FloatVec3">>
      [] gl_type = "FLOAT_VEC4" -> <<"FloatVec4">>
      [] gl_type = "FLOAT_MAT2" -> <<"FloatMat2">>
      [] gl_type = "FLOAT_MAT3" -> <<"FloatMat3">>
      [] gl_type = "FLOAT_MAT4" -> <<"FloatMat4">>
      [] gl_type = "FLOAT_MAT2x3" -> <<"FloatMat2x3">>
      [] gl_type = "FLOAT_MAT2x4" -> <<"FloatMat2x4">>
      [] gl_type = "FLOAT_MAT3x2" -> <<"FloatMat3x2">>
      [] gl_type = "FLOAT_MAT3x4" -> <<"FloatMat3x4">>
      [] gl_type = "FLOAT_MAT4x2" -> <<"FloatMat4x2">>
      [] gl_type = "FLOAT_MAT4x3" -> <<"FloatMat4x3">>
      [] gl_type = "INT" -> <<"Int">>
      [] gl_type = "INT_VEC2" -> <<"IntVec2">>
      [] gl_type = "INT_VEC3" -> <<"IntVec3">>
      [] gl_type = "INT_VEC4" -> <<"IntVec4">>
      [] gl_type = "UNSIGNED_INT" -> <<"UnsignedInt">>
      [] gl_type = "UNSIGNED_INT_VEC2" -> <<"UnsignedIntVec2">>
      [] gl_type = "UNSIGNED_INT_VEC3" -> <<"UnsignedIntVec3">>
      [] gl_type = "UNSIGNED_INT_VEC4" -> <<"UnsignedIntVec4">>
      [] OTHER -> <<"UnrecognizedType", gl_type>>

\* What the driver reports of a linked program is a record of its active
\* uniforms, uniform blocks (the block with index i is the i-th) and
\* attributes. glGetUniformLocation numbers the uniforms outside blocks in
\* order and gives -1 for a uniform in a block.
RECURSIVE DriverUniformLocation(_, _, _)
DriverUniformLocation(uniforms, name, next) ==
    IF uniforms = <<>> THEN -1
    ELSE LET u == Head(uniforms)
         IN  IF u.name = name THEN (IF u.block_index < 0 THEN next ELSE -1)
             ELSE DriverUniformLocation(Tail(uniforms), name,
                                        IF u.block_index < 0 THEN next + 1 ELSE next)

\* Program::get_value
get_value(program_id, property) == CallA("GetProgramiv", "", program_id, <<property>>)

\* fill_uniform_info_vec
fill_uniform_info_vec(program_id, property) ==
    CallA("GetActiveUniformsiv", "", program_id, <<property>>)

\* Variant of make_gl_uniform_info_vec that fails for a program without
\* active uniforms.
GlUniformsFailWhenEmpty(program_id, d) ==
    [panicked |-> d.uniforms = <<>>,
     calls |-> <<get_value(program_id, "ACTIVE_UNIFORMS")>>,
     value |-> d.uniforms]

\* make_gl_uniform_info_vec with uniform_name: the GlUniform values, each
\* with the name and the six properties the driver reports.
make_gl_uniform_info_vec(program_id, d) ==
    LET count == Len(d.uniforms)
    IN  IF count = 0
        THEN [panicked |-> FALSE,
              calls |-> <<get_value(program_id, "ACTIVE_UNIFORMS")>>,
              value |-> <<>>]
        ELSE [panicked |-> FALSE,
              calls |-> <<get_value(program_id, "ACTIVE_UNIFORMS"),
                          fill_uniform_info_vec(program_id, "UNIFORM_NAME_LENGTH")>>
                        \o [index \in 1..count |->
                               CallA("GetActiveUniformName", "", program_id, <<index - 1>>)]
                        \o [k \in 1..6 |->
                               fill_uniform_info_vec(program_id,
                                   <<"UNIFORM_SIZE", "UNIFORM_TYPE", "UNIFORM_OFFSET",
                                     "UNIFORM_BLOCK_INDEX", "UNIFORM_ARRAY_STRIDE",
                                     "UNIFORM_MATRIX_STRIDE">>[k])],
              value |-> [index \in 1..count |->
                            [name |-> d.uniforms[index].name,
                             uniform_type |-> d.uniforms[index].uniform_type,
                             size |-> d.uniforms[index].size,
                             block_index |-> d.uniforms[index].block_index,
                             offset |-> d.uniforms[index].offset,
                             array_stride |-> d.uniforms[index].array_stride,
                             matrix_stride |-> d.uniforms[index].matrix_stride]]]

\* The driver calls of one turn of the loop of make_uniform_block_info_vec.
BlockCalls(program_id, index) ==
    <<CallA("GetActiveUniformBlockiv", "", program_id, <<index, "UNIFORM_BLOCK_NAME_LENGTH">>),
      CallA("GetActiveUniformBlockiv", "", program_id, <<index, "UNIFORM_BLOCK_DATA_SIZE">>),
      CallA("GetActiveUniformBlockName", "", program_id, <<index>>),
      CallA("GetUniformBlockIndex", "", program_id, <<index>>)>>

RECURSIVE Flatten(_)
Flatten(seqs) == IF seqs = <<>> THEN <<>> ELSE Head(seqs) \o Flatten(Tail(seqs))

\* make_uniform_block_info_vec: `index` is what get_uniform_block_index
\* answers for the name of the block enumerated at this position.
make_uniform_block_info_vec(program_id, d) ==
    LET count == Len(d.blocks)
    IN  IF count = 0
        THEN [panicked |-> FALSE,
              calls |-> <<get_value(program_id, "ACTIVE_UNIFORM_BLOCKS")>>,
              value |-> <<>>]
        ELSE [panicked |-> FALSE,
              calls |-> <<get_value(program_id, "ACTIVE_UNIFORM_BLOCKS")>>
                        \o Flatten([i \in 1..count |-> BlockCalls(program_id, i - 1)]),
              value |-> [i \in 1..count |->
                            [index |-> d.blocks[i].index,
                             name |-> d.blocks[i].name,
                             data_size |-> d.blocks[i].data_size,
                             uniforms |-> <<>>]]]

\* Uniform::new
Uniform_new(gl_uniform, location) ==
    [name |-> gl_uniform.name,
     location |-> location,
     uniform_type |-> uniform_type_from_u32(gl_uniform.uniform_type),
     size |-> gl_uniform.size]

\* BlockUniform::new
BlockUniform_new(gl_uniform) ==
    [name |-> gl_uniform.name,
     uniform_type |-> uniform_type_from_u32(gl_uniform.uniform_type),
     size |-> gl_uniform.size,
     offset |-> gl_uniform.offset,
     array_stride |-> gl_uniform.array_stride,
     matrix_stride |-> gl_uniform.matrix_stride]

\* Variant of the loop of make_uniform_info that takes every uniform for a
\* global one.
RECURSIVE PlaceAllGlobal(_, _, _, _, _, _)
PlaceAllGlobal(gl_uniforms, globals, blocks, made, program_id, d) ==
    IF gl_uniforms = <<>>
    THEN [panicked |-> FALSE, calls |-> made, value |-> [globals |-> globals, blocks |-> blocks]]
    ELSE PlaceAllGlobal(Tail(gl_uniforms),
             Append(globals, Uniform_new(Head(gl_uniforms), -1)),
             blocks, made, program_id, d)

\* The loop of make_uniform_info from one GlUniform on: a uniform with a
\* negative block index is pushed to globals with its location, any other to
\* the uniforms of blocks[block_index], which panics when there is no such
\* element.
RECURSIVE PlaceUniforms(_, _, _, _, _, _)
PlaceUniforms(gl_uniforms, globals, blocks, made, program_id, d) ==
    IF gl_uniforms = <<>>
    THEN [panicked |-> FALSE, calls |-> made, value |-> [globals |-> globals, blocks |-> blocks]]
    ELSE LET gl_uniform == Head(gl_uniforms)
         IN  IF gl_uniform.block_index < 0
             THEN LET location == DriverUniformLocation(d.uniforms, gl_uniform.name, 0)
                  IN  PlaceUniforms(Tail(gl_uniforms),
                          Append(globals, Uniform_new(gl_uniform, location)),
                          blocks,
                          Append(made, CallA("GetUniformLocation", "", program_id,
                                             <<gl_uniform.name>>)),
                          program_id, d)
             ELSE LET index == gl_uniform.block_index + 1
                  IN  IF index > Len(blocks)
                      THEN [panicked |-> TRUE, calls |-> made, value |-> <<>>]
                      ELSE PlaceUniforms(Tail(gl_uniforms),
                               globals,
                               [blocks EXCEPT ![index].uniforms =
                                   Append(@, BlockUniform_new(gl_uniform))],
                               made, program_id, d)

\* make_uniform_info
make_uniform_info(program_id, d) ==
    LET gl_uniforms == make_gl_uniform_info_vec(program_id, d)
        blocks == make_uniform_block_info_vec(program_id, d)
    IN  IF gl_uniforms.panicked
        THEN [gl_uniforms EXCEPT !.value = <<>>]
        ELSE PlaceUniforms(gl_uniforms.value, <<>>, blocks.value,
                           gl_uniforms.calls \o blocks.calls, program_id, d)

\* make_attribute_info_vec
make_attribute_info_vec(program_id, d) ==
    LET attr_count == Len(d.attributes)
    IN  [panicked |-> FALSE,
         calls |-> <<get_value(program_id, "ACTIVE_ATTRIBUTES"),
                     get_value(program_id, "ACTIVE_ATTRIBUTE_MAX_LENGTH")>>
                   \o Flatten([i \in 1..attr_count |->
                          <<CallA("GetActiveAttrib", "", program_id, <<i - 1>>),
                            CallA("GetAttribLocation", "", program_id,
                                  <<d.attributes[i].name>>)>>]),
         value |-> [attributes |->
                       [i \in 1..attr_count |->
                           [name |-> d.attributes[i].name,
                            location |-> i - 1,
                            attribute_type |-> attribute_type_from_u32(d.attributes[i].gl_type),
                            size |-> d.attributes[i].size]]]]

\* Program::get_link_status: `d.link_status` is what the driver writes for
\* LINK_STATUS.
Program_get_link_status(program_id, d) ==
    LET link_status == d.link_status
    IN  [panicked |-> FALSE,
         calls |-> <<get_value(program_id, "LINK_STATUS")>>,
         value |-> link_status = GlTrue]

\* Program::get_info_log: `d.info_log` is what the driver writes into the
\* buffer, the terminating null included, and its length is what the driver
\* reports as INFO_LOG_LENGTH; the last byte is popped off the buffer.
Program_get_info_log(program_id, d) ==
    LET info_length == Len(d.info_log)
        info_vec == d.info_log
    IN  [panicked |-> FALSE,
         calls |-> <<get_value(program_id, "INFO_LOG_LENGTH"),
                     CallA("GetProgramInfoLog", "", program_id, <<info_length>>)>>,
         value |-> IF info_length = 0 THEN <<>>
                   ELSE SubSeq(info_vec, 1, info_length - 1)]

-----------------------------------------------------------------------------
(* The state machine.                                                       *)

NoBorrow == [kind |-> "none", r |-> None]
NoArgs == <<>>
NoValue == <<>>

\* Variant of check_error that fails for the error codes it has a name for
\* and lets any other code pass.
CheckErrorNamedOnly(err_code, file, line) ==
    IF err_code \in {1280, 1281, 1282, 1285, 1286}
    THEN [panicked |-> TRUE, calls |-> <<Call("GetError", "", 0)>>,
          value |-> [message |-> "named", err_code |-> err_code,
                     file |-> file, line |-> line]]
    ELSE [panicked |-> FALSE, calls |-> <<Call("GetError", "", 0)>>, value |-> NoValue]

\* util.rs, check_error as the macro check_error!() calls it, with the file
\* and line of the call site: `err_code` is what gl::GetError returns. The
\* value is the panic message, "OpenGL Error: {message} ({err_code}) at
\* {file}:{line}", kept as its four parts.
check_error(err_code, file, line) ==
    IF err_code # 0
    THEN LET message ==
                 CASE err_code = 1280 -> "GL_INVALID_ENUM"
                   [] err_code = 1281 -> "GL_INVALID_VALUE"
                   [] err_code = 1282 -> "GL_INVALID_OPERATION"
                   [] err_code = 1286 -> "GL_INVALID_FRAMEBUFFER_OPERATION"
                   [] err_code = 1285 -> "GL_OUT_OF_MEMORY"
                   [] OTHER -> "Unrecognized error code"
         IN  [panicked |-> TRUE, calls |-> <<Call("GetError", "", 0)>>,
              value |-> [message |-> message, err_code |-> err_code,
                         file |-> file, line |-> line]]
    ELSE [panicked |-> FALSE, calls |-> <<Call("GetError", "", 0)>>, value |-> NoValue]

\* The program has made no second Context.
NoContext ==
    [created |-> FALSE, resources |-> <<>>, context_alive |-> FALSE,
     context_dropped |-> FALSE, counter |-> 0]

\* Context::new, with SharedContextState::new, TrackerIdGenerator::new and the
\* trackers' constructors.
InitAt(a, c) ==
    /\ resources = <<>>
    /\ context_alive = TRUE
    /\ context_dropped = FALSE
    /\ counter = c
    /\ vbo_tracker = SimpleBindingTracker_new
    /\ ubo_tracker = SimpleBindingTracker_new
    /\ vao_tracker = RenderBindingTracker_new
    /\ program_tracker = RenderBindingTracker_new
    /\ borrow = NoBorrow
    /\ gl = [ARRAY_BUFFER |-> 0, ELEMENT_ARRAY_BUFFER |-> 0, UNIFORM_BUFFER |-> 0,
             VERTEX_ARRAY |-> 0, PROGRAM |-> 0]
    /\ used = [vao |-> None, program |-> None]
    /\ last_bound = [n \in TrackerNames |-> None]
    /\ panicked = FALSE
    /\ op = [name |-> "new", r |-> None, context |-> 1]
    /\ given = a
    /\ calls = <<>>
    /\ returned = NoValue
    /\ tlog = <<>>
    /\ other = NoContext

InitGiven(a) == InitAt(a, 0)

Init == InitGiven(NoArgs)

\* The state a library call starts from, with empty logs.
Begin ==
    [resources |-> resources, context_alive |-> context_alive, gl |-> gl,
     vbo_tracker |-> vbo_tracker, ubo_tracker |-> ubo_tracker,
     vao_tracker |-> vao_tracker, program_tracker |-> program_tracker,
     last_bound |-> last_bound, calls |-> <<>>, returned |-> NoValue,
     tlog |-> <<>>, panicked |-> FALSE]

\* The state a library call leaves behind.
CommitWith(s, name, r, a) ==
    /\ resources' = s.resources
    /\ context_alive' = s.context_alive
    /\ gl' = s.gl
    /\ vbo_tracker' = s.vbo_tracker
    /\ ubo_tracker' = s.ubo_tracker
    /\ vao_tracker' = s.vao_tracker
    /\ program_tracker' = s.program_tracker
    /\ last_bound' = s.last_bound
    /\ calls' = s.calls
    /\ returned' = s.returned
    /\ tlog' = s.tlog
    /\ op' = [name |-> name, r |-> r, context |-> 1]
    /\ given' = a
    /\ other' = other

Commit(s, name, r) == CommitWith(s, name, r, given)

\* Variant of ContextFree: a Context method could be called while an editor
\* or a Renderer holds the Context.
ContextShared == ~panicked /\ ~context_dropped

\* Calls that take `&mut Context` need a Context that is neither dropped nor
\* borrowed by an editor or a Renderer.
ContextFree == ~panicked /\ ~context_dropped /\ borrow = NoBorrow

\* The program modelled creates at most `limit` resources.
CanCreateWithin(limit) == ContextFree /\ Len(resources) < limit

CanCreate == CanCreateWithin(MaxRes)

\* A handle passed by value leaves the user's hands.
Moved(s, r) == IF r = None THEN s ELSE [s EXCEPT !.resources[r].handles = @ - 1]

BufferOpName(kind) ==
    CASE kind = "vbo" -> "new_vertex_buffer"
      [] kind = "ibo" -> "new_index_buffer"
      [] kind = "ubo" -> "new_uniform_buffer"

\* Context::new_vertex_buffer, new_index_buffer, new_uniform_buffer
NewBufferWithin(kind, limit) ==
    /\ CanCreateWithin(limit)
    /\ \E name \in FreeNames(resources, kind), id \in new_id(counter) :
        /\ counter' = id.counter
        /\ panicked' = id.panicked
        /\ IF id.panicked
           THEN Commit(Begin, BufferOpName(kind), None)
           ELSE Commit(BufferObject_new(Begin, kind, id.id, name),
                       BufferOpName(kind), Len(resources) + 1)
    /\ UNCHANGED <<context_dropped, borrow, used>>

NewBuffer(kind) == NewBufferWithin(kind, MaxRes)

\* One tightly packed vector of three floats, as a caller of new_vertex_array
\* describes it (index and vertex buffer to be filled in), and as a field of
\* new_vertex_array_simple.
PlainField ==
    [index |-> 0, size |-> 3, attribute_type |-> "Float", normalized |-> FALSE,
     stride |-> 0, offset |-> 0, vertex_buffer |-> None]

Field(size, attribute_type, normalized) ==
    [size |-> size, attribute_type |-> attribute_type, normalized |-> normalized]

PlainFieldLists ==
    {[i \in 1..n |-> Field(PlainField.size, PlainField.attribute_type, PlainField.normalized)] :
        n \in 0..MaxAttrs}

\* The vertex buffers of the attributes of a new vertex array: any list, of
\* at most max_attrs, of buffers the user holds.
AttributeLists(res, max_attrs) ==
    UNION {[1..n -> Held(res, "vbo")] : n \in 0..max_attrs}

\* Context::new_vertex_array
NewVertexArrayWithin(limit, max_attrs) ==
    /\ CanCreateWithin(limit)
    /\ \E name \in FreeNames(resources, "vao"),
          vbs \in AttributeLists(resources, max_attrs),
          index_buffer \in {None} \cup Held(resources, "ibo"),
          id \in new_id(counter) :
        /\ counter' = id.counter
        /\ panicked' = id.panicked
        /\ IF id.panicked
           THEN Commit(Begin, "new_vertex_array", None)
           ELSE Commit(VertexArray_new(Moved(Begin, index_buffer), id.id,
                           [i \in 1..Len(vbs) |->
                               [PlainField EXCEPT !.index = i - 1, !.vertex_buffer = vbs[i]]],
                           index_buffer, name),
                       "new_vertex_array", Len(resources) + 1)
    /\ UNCHANGED <<context_dropped, borrow, used>>

NewVertexArray == NewVertexArrayWithin(MaxRes, MaxAttrs)

\* Context::new_vertex_array_simple
NewVertexArraySimple(lists) ==
    /\ CanCreate
    /\ \E name \in FreeNames(resources, "vao"),
          attributes \in lists,
          vertex_buffer \in Held(resources, "vbo"),
          index_buffer \in {None} \cup Held(resources, "ibo"),
          id \in new_id(counter) :
        /\ counter' = id.counter
        /\ panicked' = id.panicked
        /\ IF id.panicked
           THEN Commit(Begin, "new_vertex_array_simple", None)
           ELSE Commit(VertexArray_new_single_vbo(
                           Moved(Moved(Begin, vertex_buffer), index_buffer),
                           id.id, attributes, vertex_buffer, index_buffer, name),
                       "new_vertex_array_simple", Len(resources) + 1)
    /\ UNCHANGED <<context_dropped, borrow, used>>

\* What the driver can say of a compilation, and what it says of a source
\* that compiles.
CompileStatuses == {GlFalse, GlTrue}
Compiles == {GlTrue}

\* Context::new_shader: `statuses` is what the driver may say of the source.
\* A panic ends the program: the unwinding after it is not followed, and the
\* Shader that was being made never becomes a resource of the program.
NewShader(statuses) ==
    /\ CanCreate
    /\ \E name \in FreeNames(resources, "shader"),
          shader_type \in {"VERTEX_SHADER", "FRAGMENT_SHADER"},
          compile_status \in statuses :
        LET out == Shader_new(Begin, shader_type, name, compile_status)
        IN  /\ IF out.panicked
               THEN Commit([out EXCEPT !.resources = resources], "new_shader", None)
               ELSE Commit(out, "new_shader", Len(resources) + 1)
            /\ panicked' = out.panicked
    /\ UNCHANGED <<counter, context_dropped, borrow, used>>

ShaderLists(res) ==
    UNION {[1..n -> Held(res, "shader")] : n \in 0..MaxAttrs}

\* Context::new_program
NewProgram ==
    /\ CanCreate
    /\ \E name \in FreeNames(resources, "program"),
          shaders \in ShaderLists(resources),
          id \in new_id(counter) :
        /\ counter' = id.counter
        /\ panicked' = id.panicked
        /\ IF id.panicked
           THEN Commit(Begin, "new_program", None)
           ELSE Commit(Program_new(Begin, id.id, shaders, name),
                       "new_program", Len(resources) + 1)
    /\ UNCHANGED <<context_dropped, borrow, used>>

\* Context::edit_vertex_buffer with new_vertex_buffer_editor
EditVertexBuffer ==
    /\ ContextFree
    /\ \E r \in Held(resources, "vbo") :
        /\ Commit(bind_vbo_for_editing(Begin, r), "edit_vertex_buffer", r)
        /\ borrow' = [kind |-> "VertexBufferEditor", r |-> r]
    /\ UNCHANGED <<counter, context_dropped, used, panicked>>

\* Context::edit_uniform_buffer with new_uniform_buffer_editor
EditUniformBuffer ==
    /\ ContextFree
    /\ \E r \in Held(resources, "ubo") :
        /\ Commit(bind_ubo_for_editing(Begin, r), "edit_uniform_buffer", r)
        /\ borrow' = [kind |-> "UniformBufferEditor", r |-> r]
    /\ UNCHANGED <<counter, context_dropped, used, panicked>>

\* Variant of Context::edit_index_buffer that makes an editor for every vertex
\* array.
EditIndexBufferAlways ==
    /\ ContextFree
    /\ \E r \in Held(resources, "vao") :
        /\ Commit(bind_vao_for_editing(Begin, r), "edit_index_buffer", r)
        /\ borrow' = [kind |-> "IndexBufferEditor", r |-> r]
    /\ UNCHANGED <<counter, context_dropped, used, panicked>>

\* Context::edit_index_buffer with new_index_buffer_editor: None, and nothing
\* else, for a vertex array without an index buffer.
EditIndexBuffer ==
    /\ ContextFree
    /\ \E r \in Held(resources, "vao") :
        IF resources[r].index_buffer # None
        THEN /\ Commit(bind_vao_for_editing(Begin, r), "edit_index_buffer", r)
             /\ borrow' = [kind |-> "IndexBufferEditor", r |-> r]
        ELSE /\ Commit(Begin, "edit_index_buffer", r)
             /\ borrow' = NoBorrow
    /\ UNCHANGED <<counter, context_dropped, used, panicked>>

\* Context::edit_program with new_program_editor
EditProgram ==
    /\ ContextFree
    /\ \E r \in Held(resources, "program") :
        /\ Commit(bind_program_for_editing(Begin, r), "edit_program", r)
        /\ borrow' = [kind |-> "ProgramEditor", r |-> r]
    /\ UNCHANGED <<counter, context_dropped, used, panicked>>

EditorTarget ==
    CASE borrow.kind = "VertexBufferEditor" -> "ARRAY_BUFFER"
      [] borrow.kind = "UniformBufferEditor" -> "UNIFORM_BUFFER"
      [] borrow.kind = "IndexBufferEditor" -> "ELEMENT_ARRAY_BUFFER"

\* BufferObject::data of a slice of `len` elements of `size_of` bytes each.
\* The arguments of a driver call are listed in the order they are passed:
\* glBufferData(target, size, data, usage).
BufferObject_data(s, target, size_of, len) ==
    LET data_size == size_of * len
    IN  Emit(s, CallA("BufferData", target, 0, <<data_size, "STATIC_DRAW">>))

\* BufferObject::sub_data. glBufferSubData(target, offset, size, data) takes
\* the offset first and the size second.
BufferObject_sub_data(s, target, size_of, len, byte_offset) ==
    LET data_size == size_of * len
    IN  Emit(s, CallA("BufferSubData", target, 0, <<data_size, byte_offset>>))

\* Three floats written to the start of the buffer.
PlainUpload == [size_of |-> 4, len |-> 3, byte_offset |-> 0]

\* data and sub_data of VertexBufferEditor, UniformBufferEditor and
\* IndexBufferEditor, with BufferObject::data and BufferObject::sub_data.
EditorDataOf(uploads) ==
    /\ ~panicked
    /\ borrow.kind \in {"VertexBufferEditor", "UniformBufferEditor", "IndexBufferEditor"}
    /\ \E fn \in {"data", "sub_data"}, u \in uploads :
        Commit(IF fn = "data"
               THEN BufferObject_data(Begin, EditorTarget, u.size_of, u.len)
               ELSE BufferObject_sub_data(Begin, EditorTarget, u.size_of, u.len,
                                          u.byte_offset),
               fn, borrow.r)
    /\ UNCHANGED <<counter, context_dropped, borrow, used, panicked>>

EditorData == EditorDataOf({PlainUpload})

UniformOps == {"uniform_f32", "uniform_matrix", "uniform_u32", "uniform_i32"}

TagsOf(fn) ==
    CASE fn = "uniform_f32" -> SimpleUniformTypeFloat
      [] fn = "uniform_matrix" -> SimpleUniformTypeMatrix
      [] fn = "uniform_u32" -> SimpleUniformTypeU32
      [] fn = "uniform_i32" -> SimpleUniformTypeI32

\* The counts a caller passes: small ones, and the large ones at which a
\* multiplication by at most 16, or the conversion to i32, leaves the width.
Counts(width) ==
    {USmall(n, width) : n \in 0..MaxCount}
    \cup {UPow2(width - 2, width),
          [UPow2(width - 2, width) EXCEPT ![1] = 1],
          UPow2(width - 1, width)}
    \cup (IF width = 64 THEN {UPow2(31, width), UPow2(32, width)} ELSE {})

\* The lengths of the slices a caller passes: short ones, one long enough for
\* MaxCount matrices of 16 elements, and on a 64-bit target slices of 2^31
\* and 2^32 elements (8 and 16 GiB of 4-byte values).
Lens(width) ==
    {USmall(n, width) : n \in (0..MaxValues) \cup {16 * MaxCount}}
    \cup (IF width = 64 THEN {UPow2(31, width), UPow2(32, width)} ELSE {})

Locations == {-1, 1}

UniformInputs ==
    UNION {UNION {[fn : {fn},
                   location : Locations,
                   count : Counts(b.width),
                   uniform_type : TagsOf(fn),
                   transpose : IF fn = "uniform_matrix" THEN BOOLEAN ELSE {FALSE},
                   values : Lens(b.width),
                   build : {b}] : fn \in UniformOps} : b \in Builds}

\* One vector of four floats, from a slice that is long enough.
PlainUniformInputs ==
    {[fn |-> "uniform_f32", location |-> 1, count |-> USmall(1, 64),
      uniform_type |-> "Uniform4f", transpose |-> FALSE,
      values |-> USmall(n, 64),
      build |-> [width |-> 64, overflow_checks |-> TRUE]] : n \in {MaxValues}}

ApplyUniform(a) ==
    CASE a.fn = "uniform_f32" ->
            uniform_f32(a.location, a.count, a.uniform_type, a.values, a.build)
      [] a.fn = "uniform_matrix" ->
            uniform_matrix(a.location, a.count, a.uniform_type, a.transpose,
                           a.values, a.build)
      [] a.fn = "uniform_u32" ->
            uniform_u32(a.location, a.count, a.uniform_type, a.values, a.build)
      [] a.fn = "uniform_i32" ->
            uniform_i32(a.location, a.count, a.uniform_type, a.values, a.build)

\* ProgramEditor::uniform_f32, uniform_matrix, uniform_u32, uniform_i32. A
\* panic ends the program; the unwinding after it is not followed.
EditorUniform(inputs) ==
    /\ ~panicked
    /\ borrow.kind = "ProgramEditor"
    /\ \E a \in inputs :
        LET out == ApplyUniform(a)
        IN  /\ CommitWith([Begin EXCEPT !.calls = out.calls], a.fn, borrow.r, a)
            /\ panicked' = out.panicked
    /\ UNCHANGED <<counter, context_dropped, borrow, used>>

\* Context::program_info or ProgramEditor::program_info, with one of
\* ProgramInfoAccessor::get_uniform_info, get_attribute_info, get_link_status
\* and get_info_log; `given` is what the driver reports of the programs.
InfoOps == {"get_uniform_info", "get_attribute_info"}
StatusOps == {"get_link_status", "get_info_log"}

ProgramInfo(name) ==
    /\ ~panicked
    /\ ~context_dropped
    /\ borrow.kind \in {"none", "ProgramEditor"}
    /\ \E r \in Held(resources, "program") :
        /\ borrow.kind = "ProgramEditor" => r = borrow.r
        /\ LET out ==
                CASE name = "get_uniform_info" -> make_uniform_info(resources[r].id, given)
                  [] name = "get_attribute_info" ->
                        make_attribute_info_vec(resources[r].id, given)
                  [] name = "get_link_status" ->
                        Program_get_link_status(resources[r].id, given)
                  [] name = "get_info_log" -> Program_get_info_log(resources[r].id, given)
           IN  /\ Commit([Begin EXCEPT !.calls = out.calls, !.returned = out.value],
                         name, r)
               /\ panicked' = out.panicked
    /\ UNCHANGED <<counter, context_dropped, borrow, used>>

\* A library call has made its driver call and reaches check_error!(): `given`
\* is the call site and the error code the driver has pending. A panic ends
\* the program.
CheckError ==
    /\ ~panicked
    /\ LET out == check_error(given.err_code, given.file, given.line)
       IN  /\ Commit([Begin EXCEPT !.calls = out.calls, !.returned = out.value],
                     "check_error", None)
           /\ panicked' = out.panicked
    /\ UNCHANGED <<counter, context_dropped, borrow, used>>

\* Context::renderer
GetRenderer ==
    /\ ContextFree
    /\ Commit(Begin, "renderer", None)
    /\ borrow' = [kind |-> "Renderer", r |-> None]
    /\ UNCHANGED <<counter, context_dropped, used, panicked>>

\* Renderer::use_vertex_array
UseVertexArray ==
    /\ ~panicked
    /\ borrow.kind = "Renderer"
    /\ \E r \in Held(resources, "vao") :
        /\ Commit(bind_vao_for_rendering(Begin, r), "use_vertex_array", r)
        /\ used' = [used EXCEPT !.vao = r]
    /\ UNCHANGED <<counter, context_dropped, borrow, panicked>>

\* Renderer::use_program
UseProgram ==
    /\ ~panicked
    /\ borrow.kind = "Renderer"
    /\ \E r \in Held(resources, "program") :
        /\ Commit(bind_program_for_rendering(Begin, r), "use_program", r)
        /\ used' = [used EXCEPT !.program = r]
    /\ UNCHANGED <<counter, context_dropped, borrow, panicked>>

DrawCall(name) ==
    CASE name = "draw_arrays" -> Call("DrawArrays", "", 0)
      [] name = "draw_elements_u8" -> Call("DrawElements", "UNSIGNED_BYTE", 0)
      [] name = "draw_elements_u16" -> Call("DrawElements", "UNSIGNED_SHORT", 0)
      [] name = "draw_elements_u32" -> Call("DrawElements", "UNSIGNED_INT", 0)

\* Renderer::draw_arrays, draw_elements_u8, draw_elements_u16, draw_elements_u32
Draw ==
    /\ ~panicked
    /\ borrow.kind = "Renderer"
    /\ \E name \in DrawOps :
        Commit(Emit(prepare_for_rendering(Begin), DrawCall(name)), name, None)
    /\ UNCHANGED <<counter, context_dropped, borrow, used, panicked>>

\* The editor or the Renderer goes out of scope: the Context is free again.
Release ==
    /\ ~panicked
    /\ borrow # NoBorrow
    /\ Commit(Begin, "release", borrow.r)
    /\ borrow' = NoBorrow
    /\ UNCHANGED <<counter, context_dropped, used, panicked>>

RECURSIVE Sum(_, _)
Sum(f, S) == IF S = {} THEN 0 ELSE LET x == CHOOSE y \in S : TRUE IN f[x] + Sum(f, S \ {x})

\* The handles the user holds beyond one per resource.
ExtraHandles(res) ==
    Sum([r \in Ids(res) |-> IF res[r].handles > 1 THEN res[r].handles - 1 ELSE 0], Ids(res))

\* Clone for Handle
CloneHandle ==
    /\ ~panicked
    /\ ExtraHandles(resources) < MaxClones
    /\ \E r \in Live(resources) :
        /\ resources[r].handles >= 1
        /\ Commit([RcClone(Begin, r) EXCEPT !.resources[r].handles = @ + 1],
                  "clone_handle", r)
    /\ UNCHANGED <<counter, context_dropped, borrow, used, panicked>>

\* The user drops a handle (the one an editor has borrowed cannot be dropped).
DropHandle ==
    /\ ~panicked
    /\ \E r \in Live(resources) :
        /\ resources[r].handles > (IF borrow.r = r THEN 1 ELSE 0)
        /\ Commit(RcDrop(Moved(Begin, r), <<r>>), "drop_handle", r)
    /\ UNCHANGED <<counter, context_dropped, borrow, used, panicked>>

\* Variant of Drop for Context that leaves the liveness flag as it is.
ContextDropKeepsFlag(s) ==
    LET targets == SelectSeq(<<s.program_tracker.bound_for_rendering,
                               s.vao_tracker.bound_for_rendering>>,
                             LAMBDA x : x # None)
    IN  [RcDrop(s, targets) EXCEPT !.program_tracker.bound_for_rendering = None,
                                   !.vao_tracker.bound_for_rendering = None]

\* Variant of Drop for Context that clears the flag after the trackers have
\* released their render targets.
ContextDropFieldsFirst(s) ==
    LET targets == SelectSeq(<<s.program_tracker.bound_for_rendering,
                               s.vao_tracker.bound_for_rendering>>,
                             LAMBDA x : x # None)
    IN  [RcDrop(s, targets)
            EXCEPT !.context_alive = FALSE,
                   !.program_tracker.bound_for_rendering = None,
                   !.vao_tracker.bound_for_rendering = None]

\* Drop for Context, and then the drop of its fields: the trackers release the
\* render targets they remember, program_tracker before vao_tracker.
Drop_Context(s) ==
    LET targets == SelectSeq(<<s.program_tracker.bound_for_rendering,
                               s.vao_tracker.bound_for_rendering>>,
                             LAMBDA x : x # None)
    IN  [RcDrop([s EXCEPT !.context_alive = FALSE], targets)
            EXCEPT !.program_tracker.bound_for_rendering = None,
                   !.vao_tracker.bound_for_rendering = None]

DropContext ==
    /\ ContextFree
    /\ Commit(Drop_Context(Begin), "drop_context", None)
    /\ context_dropped' = TRUE
    /\ UNCHANGED <<counter, borrow, used, panicked>>

\* Variant of Context::new's shared state in which every Context of the
\* program refers to one SharedContextState.
ContextNewStaticState(context) == 1

\* Context::new gives each Context a SharedContextState of its own, which
\* registration_handle hands to the resources created from that Context: the
\* state of Context 1 is `context_alive`, that of Context 2 `other.context_alive`.
Context_new_shared_state(context) == context

SharedStateAlive(cell) == IF cell = 1 THEN context_alive ELSE other.context_alive

\* The second Context as a library call on it finds it: its own resources,
\* the liveness flag its registration handles refer to, nothing bound.
BeginOther ==
    [Begin EXCEPT !.resources = other.resources,
                  !.context_alive = SharedStateAlive(Context_new_shared_state(2)),
                  !.vbo_tracker = SimpleBindingTracker_new,
                  !.ubo_tracker = SimpleBindingTracker_new,
                  !.vao_tracker = RenderBindingTracker_new,
                  !.program_tracker = RenderBindingTracker_new,
                  !.last_bound = [n \in TrackerNames |-> None]]

\* The state a library call on the second Context leaves behind: the flag goes
\* back to the SharedContextState it was read from.
CommitOther(s, name, r, next_counter, dropped) ==
    LET cell == Context_new_shared_state(2)
    IN  /\ other' = [other EXCEPT
                        !.resources = s.resources,
                        !.context_alive = IF cell = 2 THEN s.context_alive ELSE @,
                        !.counter = next_counter,
                        !.context_dropped = dropped]
        /\ context_alive' = IF cell = 1 THEN s.context_alive ELSE context_alive
        /\ calls' = s.calls
        /\ returned' = s.returned
        /\ tlog' = s.tlog
        /\ op' = [name |-> name, r |-> r, context |-> 2]
        /\ UNCHANGED <<resources, context_dropped, counter, vbo_tracker, ubo_tracker,
                       vao_tracker, program_tracker, borrow, gl, used, last_bound,
                       given>>

\* Context::new, called a second time by the program.
Context_new ==
    /\ ~panicked
    /\ ~other.created
    /\ other' = [NoContext EXCEPT !.created = TRUE, !.context_alive = TRUE]
    /\ calls' = <<>>
    /\ returned' = NoValue
    /\ tlog' = <<>>
    /\ op' = [name |-> "new", r |-> None, context |-> 2]
    /\ UNCHANGED <<resources, context_alive, context_dropped, counter, vbo_tracker,
                   ubo_tracker, vao_tracker, program_tracker, borrow, gl, used,
                   last_bound, panicked, given>>

OtherContextFree == ~panicked /\ other.created /\ ~other.context_dropped

\* Context::new_vertex_buffer on the second Context
OtherNewBuffer ==
    /\ OtherContextFree
    /\ Len(other.resources) < MaxRes
    /\ \E name \in FreeNames(other.resources, "vbo"), id \in new_id(other.counter) :
        /\ panicked' = id.panicked
        /\ IF id.panicked
           THEN CommitOther(BeginOther, BufferOpName("vbo"), None, id.counter, FALSE)
           ELSE CommitOther(BufferObject_new(BeginOther, "vbo", id.id, name),
                            BufferOpName("vbo"), Len(other.resources) + 1,
                            id.counter, FALSE)

\* The user drops a handle to a resource of the second Context.
OtherDropHandle ==
    /\ ~panicked
    /\ \E r \in Live(other.resources) :
        /\ other.resources[r].handles > 0
        /\ CommitOther(RcDrop(Moved(BeginOther, r), <<r>>), "drop_handle", r,
                       other.counter, other.context_dropped)
    /\ UNCHANGED panicked

\* The second Context is dropped.
OtherDropContext ==
    /\ OtherContextFree
    /\ CommitOther(Drop_Context(BeginOther), "drop_context", None, other.counter, TRUE)
    /\ UNCHANGED panicked

Next ==
    \/ \E kind \in BufferKinds : NewBuffer(kind)
    \/ NewVertexArray
    \/ NewVertexArraySimple(PlainFieldLists)
    \/ NewShader(Compiles)
    \/ NewProgram
    \/ EditVertexBuffer
    \/ EditUniformBuffer
    \/ EditIndexBuffer
    \/ EditProgram
    \/ EditorData
    \/ GetRenderer
    \/ UseVertexArray
    \/ UseProgram
    \/ Draw
    \/ Release
    \/ CloneHandle
    \/ DropHandle
    \/ DropContext

Spec == Init /\ [][Next]_vars

Creation ==
    \/ \E kind \in BufferKinds : NewBuffer(kind)
    \/ NewVertexArray
    \/ NewVertexArraySimple(PlainFieldLists)
    \/ NewShader(Compiles)
    \/ NewProgram

\* A program that binds, edits and draws; it never clones a handle and never
\* drops its Context.
NextBind ==
    \/ Creation
    \/ EditVertexBuffer
    \/ EditUniformBuffer
    \/ EditIndexBuffer
    \/ EditProgram
    \/ EditorData
    \/ GetRenderer
    \/ UseVertexArray
    \/ UseProgram
    \/ Draw
    \/ Release
    \/ DropHandle

SpecBind == Init /\ [][NextBind]_vars

\* A program that creates, shares, draws with and drops resources and drops
\* its Context; it never opens an editor.
NextLife ==
    \/ Creation
    \/ GetRenderer
    \/ UseVertexArray
    \/ UseProgram
    \/ Draw
    \/ Release
    \/ CloneHandle
    \/ DropHandle
    \/ DropContext

SpecLife == Init /\ [][NextLife]_vars

\* A program that binds, edits, sets a uniform (always with the same
\* arguments) and draws.
InitEdit == \E a \in PlainUniformInputs : InitGiven(a)

NextEdit ==
    \/ NextBind
    \/ EditorUniform({given})

SpecEdit == InitEdit /\ [][NextEdit]_vars

\* A program that creates programs and sets uniforms of them, once or many
\* times with the same arguments; the arguments and the build are any.
InitUniform == \E a \in UniformInputs : InitGiven(a)

NextUniform ==
    \/ NewProgram
    \/ EditProgram
    \/ EditorUniform({given})
    \/ Release

SpecUniform == InitUniform /\ [][NextUniform]_vars

\* The fields a caller of new_vertex_array_simple describes: every type with
\* no and with three components, four normalized unsigned bytes, two shorts.
Fields ==
    {Field(size, attribute_type, FALSE) :
        size \in {0, 3}, attribute_type \in VertexAttributeType}
    \cup {Field(4, "UnsignedByte", TRUE), Field(2, "Short", FALSE)}

MaxFields == MaxAttrs + 1

FieldLists == UNION {[1..n -> Fields] : n \in 0..MaxFields}

\* A program that creates vertex buffers and single-buffer vertex arrays of
\* one field list; the field list is any.
InitLayout == \E attributes \in FieldLists : InitGiven(attributes)

NextLayout ==
    \/ NewBuffer("vbo")
    \/ NewVertexArraySimple({given})

SpecLayout == InitLayout /\ [][NextLayout]_vars

MaxActive == 2

\* What a driver can report of a linked program: up to MaxActive active
\* uniforms, blocks and attributes; every uniform is outside the blocks
\* (block index -1) or in one of the active blocks, and has a type the library
\* knows or one it does not know.
ActiveUniforms(blocks) ==
    UNION {{[i \in 1..n |->
                [name |-> "u" \o ToString(i),
                 uniform_type |-> f[i].uniform_type,
                 size |-> 1,
                 block_index |-> f[i].block_index,
                 offset |-> IF f[i].block_index < 0 THEN -1 ELSE 16 * (i - 1),
                 array_stride |-> IF f[i].block_index < 0 THEN -1 ELSE 0,
                 matrix_stride |-> IF f[i].block_index < 0 THEN -1 ELSE 0]] :
            f \in [1..n -> [uniform_type : {"FLOAT_VEC3", "0x904D"},
                            block_index : -1..(blocks - 1)]]} : n \in 0..MaxActive}

ActiveBlocks ==
    {[i \in 1..n |-> [name |-> "B" \o ToString(i), data_size |-> 16 * MaxActive,
                      index |-> i - 1]] :
        n \in 0..MaxActive}

ActiveAttributes ==
    UNION {{[i \in 1..n |-> [name |-> "a" \o ToString(i), gl_type |-> f[i], size |-> 1]] :
            f \in [1..n -> {"FLOAT_VEC4", "0x904D"}]} : n \in 0..MaxActive}

ProgramInterfaces ==
    UNION {[uniforms : ActiveUniforms(Len(blocks)),
            blocks : {blocks},
            attributes : ActiveAttributes] : blocks \in ActiveBlocks}

\* A program that creates programs and asks for their uniforms and
\* attributes; what the driver reports of them is any.
InitInfo == \E d \in ProgramInterfaces : InitGiven(d)

NextInfo ==
    \/ NewProgram
    \/ \E name \in InfoOps : ProgramInfo(name)

SpecInfo == InitInfo /\ [][NextInfo]_vars

\* The type tags the driver may report: the ones uniform_type_from_u32 has an
\* arm for, the ones attribute_type_from_u32 has an arm for, and some neither
\* has (0, DOUBLE, DOUBLE_VEC2, IMAGE_2D, and the largest u32).
RecognizedUniformTags ==
    {"FLOAT", "FLOAT_VEC2", "FLOAT_VEC3", "FLOAT_VEC4", "INT", "INT_VEC2",
     "INT_VEC3", "INT_VEC4", "UNSIGNED_INT", "UNSIGNED_INT_VEC2",
     "UNSIGNED_INT_VEC3", "UNSIGNED_INT_VEC4", "BOOL", "BOOL_VEC2",
     "BOOL_VEC3", "BOOL_VEC4", "FLOAT_MAT2", "FLOAT_MAT3", "FLOAT_MAT4",
     "FLOAT_MAT2x3", "FLOAT_MAT2x4", "FLOAT_MAT3x2", "FLOAT_MAT3x4",
     "FLOAT_MAT4x2", "FLOAT_MAT4x3", "SAMPLER_1D", "SAMPLER_2D", "SAMPLER_3D",
     "SAMPLER_CUBE", "SAMPLER_1D_SHADOW", "SAMPLER_2D_SHADOW",
     "SAMPLER_1D_ARRAY", "SAMPLER_2D_ARRAY", "SAMPLER_1D_ARRAY_SHADOW",
     "SAMPLER_2D_ARRAY_SHADOW", "SAMPLER_2D_MULTISAMPLE",
     "SAMPLER_2D_MULTISAMPLE_ARRAY", "SAMPLER_CUBE_SHADOW", "SAMPLER_BUFFER",
     "SAMPLER_2D_RECT", "SAMPLER_2D_RECT_SHADOW", "INT_SAMPLER_1D",
     "INT_SAMPLER_2D", "INT_SAMPLER_3D", "INT_SAMPLER_CUBE",
     "INT_SAMPLER_1D_ARRAY", "INT_SAMPLER_2D_ARRAY",
     "INT_SAMPLER_2D_MULTISAMPLE", "INT_SAMPLER_2D_MULTISAMPLE_ARRAY",
     "INT_SAMPLER_BUFFER", "INT_SAMPLER_2D_RECT", "UNSIGNED_INT_SAMPLER_1D",
     "UNSIGNED_INT_SAMPLER_2D", "UNSIGNED_INT_SAMPLER_3D",
     "UNSIGNED_INT_SAMPLER_CUBE", "UNSIGNED_INT_SAMPLER_1D_ARRAY",
     "UNSIGNED_INT_SAMPLER_2D_ARRAY", "UNSIGNED_INT_SAMPLER_2D_MULTISAMPLE",
     "UNSIGNED_INT_SAMPLER_2D_MULTISAMPLE_ARRAY",
     "UNSIGNED_INT_SAMPLER_BUFFER", "UNSIGNED_INT_SAMPLER_2D_RECT"}

RecognizedAttributeTags ==
    {"FLOAT", "FLOAT_VEC2", "FLOAT_VEC3", "FLOAT_VEC4", "FLOAT_MAT2",
     "FLOAT_MAT3", "FLOAT_MAT4", "FLOAT_MAT2x3", "FLOAT_MAT2x4",
     "FLOAT_MAT3x2", "FLOAT_MAT3x4", "FLOAT_MAT4x2", "FLOAT_MAT4x3", "INT",
     "INT_VEC2", "INT_VEC3", "INT_VEC4", "UNSIGNED_INT", "UNSIGNED_INT_VEC2",
     "UNSIGNED_INT_VEC3", "UNSIGNED_INT_VEC4"}

UnrecognizedTags == {"0x0000", "0x140A", "0x8FFC", "0x904D", "0xFFFFFFFF"}

DriverTags == RecognizedUniformTags \cup RecognizedAttributeTags \cup UnrecognizedTags

\* A program with one active uniform and one active attribute of one type
\* tag; the uniform is outside the blocks or in the one block.
TypedInterface(tag, block_index) ==
    [uniforms |-> <<[name |-> "u1", uniform_type |-> tag, size |-> 1,
                     block_index |-> block_index,
                     offset |-> IF block_index < 0 THEN -1 ELSE 0,
                     array_stride |-> IF block_index < 0 THEN -1 ELSE 0,
                     matrix_stride |-> IF block_index < 0 THEN -1 ELSE 0]>>,
     blocks |-> <<[name |-> "B1", data_size |-> 16, index |-> 0]>>,
     attributes |-> <<[name |-> "a1", gl_type |-> tag, size |-> 1]>>]

\* A program that creates programs and asks for their uniforms and
\* attributes; the driver reports one uniform and one attribute, of any type
\* tag.
InitTypes ==
    \E tag \in DriverTags, block_index \in {-1, 0} :
        InitGiven(TypedInterface(tag, block_index))

SpecTypes == InitTypes /\ [][NextInfo]_vars

\* The codes gl::GetError may return: no error, the codes of OpenGL
\* (INVALID_ENUM 0x0500 to INVALID_FRAMEBUFFER_OPERATION 0x0506, the stack
\* errors among them), and codes OpenGL does not define.
ErrorCodes == {0, 1, 1280, 1281, 1282, 1283, 1284, 1285, 1286, 2147483647}

\* Some of the places where the library calls check_error!().
ErrorSites ==
    {<<"src/buffer/mod.rs", 47>>, <<"src/buffer/mod.rs", 62>>,
     <<"src/buffer/mod.rs", 70>>, <<"src/buffer/mod.rs", 81>>,
     <<"src/vertexarray.rs", 84>>, <<"src/vertexarray.rs", 143>>,
     <<"src/renderer.rs", 60>>, <<"src/program/mod.rs", 52>>,
     <<"src/program/mod.rs", 108>>, <<"src/program/mod.rs", 113>>,
     <<"src/program/mod.rs", 138>>}

\* A program that makes buffers, in which a library call then reaches
\* check_error!(); the call site and the pending error code are any.
InitError ==
    \E err_code \in ErrorCodes, site \in ErrorSites :
        InitGiven([err_code |-> err_code, file |-> site[1], line |-> site[2]])

NextError ==
    \/ NewBuffer("vbo")
    \/ CheckError

SpecError == InitError /\ [][NextError]_vars

\* What the driver can say of the linking of a program: the status and the
\* log (none, or three bytes and the terminating null).
LinkReports ==
    [link_status : {GlFalse, GlTrue},
     info_log : {<<>>, <<"e", "r", "r", 0>>}]

\* A program that makes shaders and programs of them and asks whether the
\* programs were linked; the driver's verdict on every source and on the
\* linking is any.
InitBuild == \E d \in LinkReports : InitGiven(d)

NextBuild ==
    \/ NewShader(CompileStatuses)
    \/ NewProgram
    \/ \E name \in StatusOps : ProgramInfo(name)
    \/ DropHandle

SpecBuild == InitBuild /\ [][NextBuild]_vars

\* A program whose Context has already issued many ids: the generator's
\* counter starts fresh, one below u32::MAX, or at u32::MAX (every earlier
\* resource has been dropped and no tracker has bound any of them).
CounterStarts == {0, U32Max - 1, U32Max}

InitIds == \E c \in CounterStarts : InitAt(NoArgs, c)

NextIds ==
    \/ \E kind \in BufferKinds : NewBuffer(kind)
    \/ EditVertexBuffer
    \/ EditUniformBuffer
    \/ Release
    \/ DropHandle

SpecIds == InitIds /\ [][NextIds]_vars

\* What a driver can report of the blocks of a linked program when the index
\* it resolves from a block's name need not be the position at which it
\* enumerated the block: every assignment of the indices 0..n-1 to the n
\* blocks enumerated.
ReindexedBlocks ==
    UNION {{[i \in 1..n |-> [name |-> "B" \o ToString(i), data_size |-> 16 * MaxActive,
                             index |-> f[i]]] :
            f \in {g \in [1..n -> 0..(n - 1)] :
                      \A i, j \in 1..n : i # j => g[i] # g[j]}} : n \in 0..MaxActive}

ReindexedInterfaces ==
    UNION {[uniforms : ActiveUniforms(Len(blocks)),
            blocks : {blocks},
            attributes : {<<>>}] : blocks \in ReindexedBlocks}

InitBlocks == \E d \in ReindexedInterfaces : InitGiven(d)

SpecBlocks == InitBlocks /\ [][NextInfo]_vars

\* The slices and byte offsets a caller uploads: elements of 1, 2 and 4 bytes
\* (u8, u16, f32), up to MaxCount of them, at offsets that differ from the
\* byte length of the slice and at one that equals it.
Uploads ==
    [size_of : {1, 2, 4}, len : 0..MaxCount, byte_offset : {0, 2, 4, 12}]

InitUpload == \E u \in Uploads : InitGiven(u)

\* A program that creates buffers and uploads to them through editors.
NextUpload ==
    \/ NewBuffer("vbo")
    \/ NewBuffer("ubo")
    \/ EditVertexBuffer
    \/ EditUniformBuffer
    \/ EditorDataOf({given})
    \/ Release

SpecUpload == InitUpload /\ [][NextUpload]_vars

\* A program that selects vertex arrays and programs for rendering, drops its
\* handles to them, and drops its Context.
NextTargets ==
    \/ NewVertexArray
    \/ NewShader(Compiles)
    \/ NewProgram
    \/ GetRenderer
    \/ UseVertexArray
    \/ UseProgram
    \/ Release
    \/ DropHandle
    \/ DropContext

SpecTargets == Init /\ [][NextTargets]_vars

\* A program with two Contexts: it creates vertex buffers from each, drops
\* handles, and drops either Context at any time.
NextContexts ==
    \/ Context_new
    \/ NewBuffer("vbo")
    \/ DropHandle
    \/ DropContext
    \/ OtherNewBuffer
    \/ OtherDropHandle
    \/ OtherDropContext

SpecContexts == Init /\ [][NextContexts]_vars

\* A program that builds vertex arrays over several vertex buffers, and edits
\* the buffers in between, so that the vertex buffer tracker has any of them
\* as currently bound when a vertex array is created.
MaxArrayRes == 3
MaxArrayAttrs == 2

NextArrays ==
    \/ NewBufferWithin("vbo", MaxArrayRes)
    \/ NewBufferWithin("ibo", MaxArrayRes)
    \/ NewVertexArrayWithin(MaxArrayRes, MaxArrayAttrs)
    \/ EditVertexBuffer
    \/ EditIndexBuffer
    \/ Release
    \/ DropHandle

SpecArrays == Init /\ [][NextArrays]_vars

-----------------------------------------------------------------------------
(* Bookkeeping that every reachable state satisfies.                        *)

Count(seq, x) == Cardinality({i \in DOMAIN seq : seq[i] = x})

\* The references to r held by resources that have not been dropped.
CompositeRefs(r) ==
    Sum([c \in Ids(resources) |->
            IF resources[c].dropped THEN 0
            ELSE Count(OwnedHandles(resources[c]), r)],
        Ids(resources))

\* The references to r held by the render trackers of a live Context.
TrackerRefs(r) ==
    IF context_dropped THEN 0
    ELSE (IF vao_tracker.bound_for_rendering = r THEN 1 ELSE 0)
         + (IF program_tracker.bound_for_rendering = r THEN 1 ELSE 0)

\* Every strong count is the number of handles that exist, and a resource has
\* been dropped exactly when none is left.
RcConsistent ==
    \A r \in Ids(resources) :
        /\ resources[r].strong = resources[r].handles + CompositeRefs(r) + TrackerRefs(r)
        /\ resources[r].dropped <=> resources[r].strong = 0
        /\ resources[r].deleted <= 1

-----------------------------------------------------------------------------
(* The claims.                                                              *)

BindEventFns == {"bind", "bind_for_editing", "bind_for_rendering"}
BindEvents == {i \in DOMAIN tlog : tlog[i].fn \in BindEventFns}
RestoreEvents == {i \in DOMAIN tlog : tlog[i].fn = "restore_rendering_state"}

\* The driver bind calls made during a tracker call.
Issued(e) == SelectCalls(e.calls, BindFns)

\* C1 (tracker idempotence): a bind of resource R on a tracker whose
\* currently_bound already equals R's id issues no driver bind and leaves the
\* tracker as it was (bind_for_rendering may still record R as render target);
\* no bind call issues more than one driver bind, and every bind call leaves
\* currently_bound equal to R's id, so that a second bind(R) right after it is
\* the elided case.
C1_TrackerIdempotence ==
    \A i \in BindEvents :
        LET e == tlog[i]
            id == get_id(resources, e.r)
        IN  /\ CurrentlyBound(e.tracker, e.before) = id =>
                /\ Issued(e) = <<>>
                /\ CurrentlyBound(e.tracker, e.after) = CurrentlyBound(e.tracker, e.before)
                /\ e.fn # "bind_for_rendering" => e.after = e.before
            /\ Len(Issued(e)) <= 1
            /\ CurrentlyBound(e.tracker, e.after) = id

\* C1 witness: an editor is opened on the vertex buffer that is already the
\* currently bound one, and the bind is elided.
C1_Witness ==
    /\ op.name = "edit_vertex_buffer"
    /\ Len(tlog) = 1
    /\ tlog[1].fn = "bind" /\ tlog[1].r = op.r
    /\ tlog[1].before.currently_bound = resources[op.r].tracker_id
    /\ calls = <<>>

\* C2 (tracker correctness under interleaving): a bind of resource R on a
\* tracker whose currently_bound differs from R's id issues exactly one driver
\* bind, the one for R, and leaves currently_bound equal to R's id.
C2_BindWhenDifferent ==
    \A i \in BindEvents :
        LET e == tlog[i]
            id == get_id(resources, e.r)
        IN  CurrentlyBound(e.tracker, e.before) # id =>
                /\ Issued(e) = <<BindCall(resources[e.r])>>
                /\ CurrentlyBound(e.tracker, e.after) = id

\* C2 witness: vertex array 1 was bound when it was created, vertex array 2
\* when it was created after it, and now vertex array 1 is bound again
\* (A, B, A): the third bind is issued.
C2_Witness ==
    /\ op.name = "use_vertex_array" /\ op.r = 1
    /\ Len(resources) >= 2
    /\ resources[1].kind = "vao" /\ resources[2].kind = "vao"
    /\ Len(tlog) = 1
    /\ tlog[1].prev = 2
    /\ Issued(tlog[1]) = <<BindCall(resources[1])>>

\* C3 (render-restore): restore_rendering_state issues one driver bind, for the
\* remembered render target, iff the target's id differs from currently_bound,
\* and none otherwise; after it the render target is the currently bound
\* resource. With no render target it does nothing.
C3_RenderRestore ==
    \A i \in RestoreEvents :
        LET e == tlog[i]
            target == e.before.bound_for_rendering
        IN  IF target = None
            THEN Issued(e) = <<>> /\ e.after = e.before
            ELSE /\ Issued(e) =
                        IF CurrentlyBound(e.tracker, e.before) # get_id(resources, target)
                        THEN <<BindCall(resources[target])>>
                        ELSE <<>>
                 /\ CurrentlyBound(e.tracker, e.after) = get_id(resources, target)

\* C3 witness: vertex array A was bound for rendering, another vertex array B
\* was then bound for editing, and the restore before a draw binds A again,
\* with one driver bind.
C3_Witness ==
    /\ op.name \in DrawOps
    /\ \E i \in RestoreEvents :
        LET e == tlog[i]
            target == e.before.bound_for_rendering
        IN  /\ e.tracker = "vao_tracker"
            /\ target # None
            /\ e.prev # None /\ e.prev # target
            /\ Issued(e) = <<BindCall(resources[target])>>
            /\ gl.VERTEX_ARRAY = resources[target].id
            /\ last_bound.vao_tracker = target

\* C4 (draws use the render bindings): when a draw call of the Renderer
\* reaches the driver, the driver's bound vertex array and active program are
\* the ones last passed to use_vertex_array and use_program (for each that has
\* been called), whatever was bound for editing in between; both still exist.
C4_DrawUsesRenderBindings ==
    op.name \in DrawOps =>
        /\ calls # <<>> /\ calls[Len(calls)] = DrawCall(op.name)
        /\ used.vao # None =>
            /\ ~resources[used.vao].dropped
            /\ gl.VERTEX_ARRAY = resources[used.vao].id
        /\ used.program # None =>
            /\ ~resources[used.program].dropped
            /\ gl.PROGRAM = resources[used.program].id

\* C4 witness: a draw after use_vertex_array(A) and a later edit-mode bind of
\* another vertex array: the draw had to bind A again first.
C4_Witness ==
    /\ op.name \in DrawOps
    /\ used.vao # None
    /\ Len(calls) = 2
    /\ calls[1] = BindCall(resources[used.vao])
    /\ gl.VERTEX_ARRAY = resources[used.vao].id

\* C5 (liveness gating): once the Context has been dropped, no library call
\* issues a driver delete call, whatever handles are dropped and in whatever
\* order.
C5_NoDeleteAfterContext ==
    ~context_alive => SelectCalls(calls, DeleteFns) = <<>>

\* C5 witness: after the Context is gone the last handle of a vertex array or
\* program is dropped, which also releases the last reference to a resource it
\* owned: both are destroyed and no delete call is made.
C5_Witness ==
    /\ ~context_alive
    /\ op.name = "drop_handle"
    /\ resources[op.r].dropped /\ resources[op.r].deleted = 0
    /\ \E d \in SeqToSet(OwnedHandles(resources[op.r])) :
        resources[d].dropped /\ resources[d].deleted = 0
    /\ calls = <<>>

UserOwners(r) == resources[r].handles + CompositeRefs(r)
Owners(r) == UserOwners(r) + TrackerRefs(r)

DeleteFn(kind) ==
    CASE kind \in BufferKinds -> "DeleteBuffers"
      [] kind = "vao" -> "DeleteVertexArrays"
      [] kind = "shader" -> "DeleteShader"
      [] kind = "program" -> "DeleteProgram"

\* C6 as stated: while the context is alive a resource whose user handles,
\* clones and references from composite resources are all gone has been
\* destroyed, with one driver delete call.
C6_Original ==
    context_alive =>
        \A r \in Ids(resources) :
            UserOwners(r) = 0 => resources[r].dropped /\ resources[r].deleted = 1

\* C6 (amended): while the context is alive, a resource is destroyed exactly
\* when its last owner is gone, counting as owners the user's handles and
\* clones, the references held by composite resources and the reference a
\* render tracker keeps to its remembered render target; its driver delete
\* call has then been issued exactly once, in the very call that dropped the
\* last owner, and dropping a handle that is not the last owner issues no
\* driver call.
C6_DeleteAtLastOwner ==
    context_alive =>
        /\ \A r \in Ids(resources) :
            /\ resources[r].dropped <=> Owners(r) = 0
            /\ resources[r].deleted = (IF resources[r].dropped THEN 1 ELSE 0)
        /\ op.name = "drop_handle" =>
            IF resources[op.r].dropped
            THEN calls # <<>>
                 /\ calls[1] = Call(DeleteFn(resources[op.r].kind), "", resources[op.r].id)
            ELSE calls = <<>>

\* C6 witness: while the context is alive the user drops the last handle to a
\* resource no tracker remembers, which owns a buffer nobody else holds: both
\* are deleted in that call, the resource first and the buffer after it.
C6_Witness ==
    /\ context_alive
    /\ op.name = "drop_handle"
    /\ resources[op.r].dropped
    /\ Len(calls) = 2
    /\ calls[2].fn = "DeleteBuffers"

\* C7 (liveness flag): the flag is true exactly as long as the Context has not
\* been dropped; the only change it ever undergoes is from true to false, and
\* the call that makes it is the drop of the Context.
C7_LivenessFlag ==
    /\ [](context_alive <=> ~context_dropped)
    /\ [][context_alive' # context_alive =>
            context_alive /\ ~context_alive' /\ op'.name = "drop_context"]_vars

\* C7 witness: the Context has been dropped, the flag is false, and a handle
\* was dropped afterwards.
C7_Witness ==
    /\ context_dropped /\ ~context_alive
    /\ op.name = "drop_handle"

TrackedResources == {r \in Ids(resources) : resources[r].kind # "shader"}

\* C8 (identifier uniqueness), as stated: the tracker ids of the resources of
\* a Context are strictly increasing in creation order, hence pairwise
\* distinct; each is at least 1 and none exceeds the generator's counter.
C8_IdsUnique ==
    /\ \A r \in TrackedResources :
        /\ resources[r].tracker_id # 0
        /\ ~U32Less(counter, resources[r].tracker_id)
    /\ \A r1, r2 \in TrackedResources :
        r1 < r2 => U32Less(resources[r1].tracker_id, resources[r2].tracker_id)

\* C8 failing case: two resources were created one after the other, the first
\* with the id u32::MAX, and the later one has the smaller id 0.
C8_Witness ==
    \E r1, r2 \in TrackedResources :
        /\ r1 < r2
        /\ resources[r1].tracker_id = U32Max
        /\ resources[r2].tracker_id = 0
        /\ ~resources[r1].dropped /\ ~resources[r2].dropped

\* C9 (no stale-id elision): when the resource a tracker last had the driver
\* bind has been destroyed, a bind of a resource created after it always
\* issues the driver bind, whatever driver name the new resource received.
C9_NoStaleElision ==
    \A i \in BindEvents :
        LET e == tlog[i]
        IN  (e.prev # None /\ resources[e.prev].dropped /\ e.r > e.prev) =>
                Issued(e) = <<BindCall(resources[e.r])>>

\* C9 witness: the currently bound vertex buffer was destroyed, the next
\* vertex buffer received the same driver name, and its first bind is issued.
C9_Witness ==
    /\ op.name = "edit_vertex_buffer"
    /\ Len(tlog) = 1
    /\ tlog[1].prev # None
    /\ resources[tlog[1].prev].dropped
    /\ resources[tlog[1].prev].id = resources[op.r].id
    /\ calls = <<BindCall(resources[op.r])>>

\* C10 as stated: at a restore_rendering_state whose remembered render target
\* has no user handle left, the target has been destroyed, the restore clears
\* the render target and issues no driver bind.
C10_Original ==
    \A i \in RestoreEvents :
        LET e == tlog[i]
            target == e.before.bound_for_rendering
        IN  (target # None /\ resources[target].handles = 0) =>
                /\ resources[target].dropped
                /\ e.after.bound_for_rendering = None
                /\ Issued(e) = <<>>

\* C10 (amended): the render tracker's remembered render target is owning. A
\* resource is never destroyed while a tracker of a live Context remembers it,
\* also when every user handle to it has been dropped; restore_rendering_state
\* never clears or changes the render target, and when no user handle to the
\* target is left it still binds the target iff it is not the currently bound
\* resource.
C10_RenderTargetOwned ==
    /\ ~context_dropped =>
        \A name \in RenderTrackerNames :
            LET target == (IF name = "vao_tracker" THEN vao_tracker
                           ELSE program_tracker).bound_for_rendering
            IN  target # None => ~resources[target].dropped
    /\ \A i \in RestoreEvents :
        LET e == tlog[i]
            target == e.before.bound_for_rendering
        IN  /\ e.after.bound_for_rendering = target
            /\ (target # None /\ resources[target].handles = 0) =>
                /\ ~resources[target].dropped
                /\ Issued(e) =
                        IF CurrentlyBound(e.tracker, e.before) # get_id(resources, target)
                        THEN <<BindCall(resources[target])>>
                        ELSE <<>>

\* C10 witness: the user has dropped every handle to the vertex array bound
\* for rendering, another vertex array was bound since, and the restore before
\* a draw binds the remembered one again.
C10_Witness ==
    /\ op.name \in DrawOps
    /\ \E i \in RestoreEvents :
        LET e == tlog[i]
            target == e.before.bound_for_rendering
        IN  /\ e.tracker = "vao_tracker"
            /\ target # None
            /\ resources[target].handles = 0
            /\ ~resources[target].dropped
            /\ e.after.bound_for_rendering = target
            /\ Issued(e) = <<BindCall(resources[target])>>

EditorKinds ==
    {"VertexBufferEditor", "UniformBufferEditor", "IndexBufferEditor", "ProgramEditor"}
UploadOps == {"data", "sub_data"}

\* The tracker an editor's constructor binds its resource on, and that
\* tracker's value in the current state.
EditorTracker(kind) ==
    CASE kind = "VertexBufferEditor" -> "vbo_tracker"
      [] kind = "UniformBufferEditor" -> "ubo_tracker"
      [] kind = "IndexBufferEditor" -> "vao_tracker"
      [] kind = "ProgramEditor" -> "program_tracker"

TrackerNow(name) ==
    CASE name = "vbo_tracker" -> vbo_tracker
      [] name = "ubo_tracker" -> ubo_tracker
      [] name = "vao_tracker" -> vao_tracker
      [] name = "program_tracker" -> program_tracker

\* C11 (editors edit the bound resource): as long as an editor exists, the
\* resource it was obtained for (for an IndexBufferEditor the vertex array
\* that owns the index buffer) exists and is the currently bound resource of
\* its tracker, and it is the resource that tracker last had the driver bind;
\* every upload and every uniform value-set call is made through an existing
\* editor, on that resource, and makes no tracker call itself.
C11_EditedIsBound ==
    /\ borrow.kind \in EditorKinds =>
        LET name == EditorTracker(borrow.kind)
        IN  /\ ~resources[borrow.r].dropped
            /\ CurrentlyBound(name, TrackerNow(name)) = get_id(resources, borrow.r)
            /\ last_bound[name] = borrow.r
    /\ op.name \in UploadOps \cup UniformOps =>
        /\ borrow.kind \in EditorKinds
        /\ op.r = borrow.r
        /\ tlog = <<>>

\* C11 witness: two programs exist, an editor was obtained for the one that
\* was not the currently bound one, and a uniform value was set through it.
C11_Witness ==
    /\ op.name \in UniformOps
    /\ ~panicked
    /\ calls # <<>>
    /\ borrow.kind = "ProgramEditor"
    /\ \E p \in OfKind(resources, "program") :
        p # borrow.r /\ resources[p].tracker_id > resources[borrow.r].tracker_id
    /\ program_tracker.simple_tracker.currently_bound = resources[borrow.r].tracker_id

RenderOps == {"use_vertex_array", "use_program"} \cup DrawOps
ObtainOps ==
    {"edit_vertex_buffer", "edit_uniform_buffer", "edit_index_buffer",
     "edit_program", "renderer"}

\* Cloning and dropping a handle take no Context.
HandleOps == {"clone_handle", "drop_handle"}

\* The calls that can be made through an editor or a Renderer.
HolderOps(kind) ==
    CASE kind = "Renderer" -> RenderOps
      [] kind = "ProgramEditor" -> UniformOps
      [] OTHER -> UploadOps

\* C12 (editing and rendering are mutually exclusive): an editor or a Renderer
\* is obtained only while no other editor or Renderer exists, and from then
\* until it is released every call made is a call of that one holder (a
\* Renderer's use and draw calls, or the one editor's upload or value-set
\* calls) or clones or drops a handle: no Context method runs, and no other
\* holder appears, in between.
C12_ExclusiveAccess ==
    [][/\ borrow' # borrow =>
            \/ borrow = NoBorrow /\ op'.name \in ObtainOps
            \/ borrow' = NoBorrow /\ op'.name = "release"
       /\ (borrow # NoBorrow /\ op'.name # "release") =>
            /\ borrow' = borrow
            /\ op'.name \in HolderOps(borrow.kind) \cup HandleOps
       /\ op'.name \in RenderOps => borrow.kind = "Renderer"
       /\ op'.name \in UploadOps \cup UniformOps => borrow.kind \in EditorKinds]_vars

\* C12 witness: a Renderer selected a vertex array and was released, and then
\* a vertex buffer editor was obtained and data was uploaded through it.
C12_Witness ==
    /\ op.name \in UploadOps
    /\ borrow.kind = "VertexBufferEditor"
    /\ vao_tracker.bound_for_rendering # None

\* C13 (index buffer editor is optional): edit_index_buffer yields an editor
\* exactly when the vertex array was created with an index buffer, and then
\* the vertex array is the bound one; for a vertex array without an index
\* buffer it yields nothing, makes no tracker call and no driver call, and
\* leaves every tracker and the driver's bindings as they were.
C13_IndexEditorOption ==
    [][op'.name = "edit_index_buffer" =>
        IF resources'[op'.r].index_buffer = None
        THEN /\ borrow' = NoBorrow
             /\ calls' = <<>>
             /\ tlog' = <<>>
             /\ UNCHANGED <<vbo_tracker, ubo_tracker, vao_tracker, program_tracker,
                            gl, last_bound, resources>>
        ELSE /\ borrow' = [kind |-> "IndexBufferEditor", r |-> op'.r]
             /\ resources'[op'.r].kind = "vao"
             /\ vao_tracker'.simple_tracker.currently_bound = resources'[op'.r].tracker_id
             /\ gl'.VERTEX_ARRAY = resources'[op'.r].id]_vars

\* C13 witness: edit_index_buffer was called for a vertex array without an
\* index buffer while another vertex array was the bound one, and yielded
\* nothing.
C13_Witness ==
    /\ op.name = "edit_index_buffer"
    /\ resources[op.r].index_buffer = None
    /\ borrow = NoBorrow
    /\ vao_tracker.simple_tracker.currently_bound \notin {None, resources[op.r].tracker_id}

\* The number of scalar values one uniform of a type takes: the digit of the
\* vector type, rows times columns of a matrix type.
Components(uniform_type) ==
    CASE uniform_type \in {"Uniform1f", "Uniform1i", "Uniform1u"} -> 1
      [] uniform_type \in {"Uniform2f", "Uniform2i", "Uniform2u"} -> 2
      [] uniform_type \in {"Uniform3f", "Uniform3i", "Uniform3u"} -> 3
      [] uniform_type \in {"Uniform4f", "Uniform4i", "Uniform4u", "Matrix2f"} -> 4
      [] uniform_type \in {"Matrix2x3f", "Matrix3x2f"} -> 6
      [] uniform_type \in {"Matrix2x4f", "Matrix4x2f"} -> 8
      [] uniform_type = "Matrix3f" -> 9
      [] uniform_type \in {"Matrix3x4f", "Matrix4x3f"} -> 12
      [] uniform_type = "Matrix4f" -> 16

\* count * components, as a number and not as a usize, is greater than the
\* length of the slice.
TooFewValues(a) ==
    LET product == MulFrom(a.count, Components(a.uniform_type), 1, 0)
    IN  \/ product.carry > 0
        \/ GtFrom(product.limbs, a.values, Len(a.values))

\* C14 (uniform-length validation) as stated: a value-set call with
\* count * components(type) greater than the length of the values fails
\* before any driver call.
C14_Original ==
    (op.name \in UniformOps /\ TooFewValues(given)) =>
        /\ panicked
        /\ calls = <<>>

\* C14, the failing case: a build without overflow checks, a count whose
\* product with the component count leaves the usize, and a driver call
\* made although the slice is too short.
C14_Witness ==
    /\ op.name \in UniformOps
    /\ TooFewValues(given)
    /\ ~given.build.overflow_checks
    /\ ~panicked
    /\ Len(calls) = 1

\* The driver entry point that sets uniforms of a type.
VariantOf(uniform_type) ==
    CASE uniform_type \in SimpleUniformTypeFloat -> uniform_type \o "v"
      [] uniform_type \in SimpleUniformTypeMatrix -> "Uniform" \o uniform_type \o "v"
      [] uniform_type \in SimpleUniformTypeI32 -> uniform_type \o "v"
      [] uniform_type \in SimpleUniformTypeU32 -> uniform_type \o "iv"

\* The usize value of a count the driver was passed (no usize for a negative
\* one).
CountPassed(n, width) ==
    [i \in 1..Limbs(width) |->
        CASE i = 1 -> n % LimbBase
          [] i = 2 -> n \div LimbBase
          [] OTHER -> 0]

\* C15 (a long enough slice is dispatched) as stated: a value-set call with at
\* least count * components(type) values does not fail, and makes exactly one
\* driver call: the set-uniform variant of its type, with the location and
\* the count the caller gave.
C15_Original ==
    (op.name \in UniformOps /\ ~TooFewValues(given)) =>
        /\ ~panicked
        /\ Len(calls) = 1
        /\ calls[1].fn = VariantOf(given.uniform_type)
        /\ calls[1].args[1] = given.location
        /\ calls[1].args[2] >= 0
        /\ CountPassed(calls[1].args[2], given.build.width) = given.count

\* C15, the failing case: the slice is long enough, the call is dispatched to
\* the right variant, and the count the driver gets is not the caller's.
C15_Witness ==
    /\ op.name \in UniformOps
    /\ ~TooFewValues(given)
    /\ ~panicked
    /\ Len(calls) = 1
    /\ calls[1].fn = VariantOf(given.uniform_type)
    /\ calls[1].args[2] < 0

\* size_of(type): the bytes one component of a type takes.
SizeOfType(attribute_type) ==
    CASE attribute_type \in {"Byte", "UnsignedByte"} -> 1
      [] attribute_type \in {"Short", "UnsignedShort", "HalfFloat"} -> 2
      [] attribute_type \in {"Int", "UnsignedInt", "Float", "Int2101010Rev",
                             "UnsignedInt2101010Rev"} -> 4
      [] attribute_type = "Double" -> 8

FieldBytes(field) == SizeOfType(field.attribute_type) * field.size

\* The bytes of the first k fields of a list.
RECURSIVE BytesBefore(_, _)
BytesBefore(fields, k) ==
    IF k = 0 THEN 0 ELSE BytesBefore(fields, k - 1) + FieldBytes(fields[k])

\* The layout one call of new_vertex_array_simple made.
LaidOut == IF op.name = "new_vertex_array_simple" THEN resources[op.r].vertex_attributes ELSE <<>>

ExampleTwoFields == <<Field(3, "Float", FALSE), Field(4, "UnsignedByte", TRUE)>>
ExampleOneField == <<Field(2, "Short", FALSE)>>

\* C16 (layout builder): the vertex array new_vertex_array_simple makes for a
\* field list has one attribute per field, in the order of the list, with
\* indices 0, 1, 2, ..., each with its field's component count, type and
\* normalize flag, an offset equal to the bytes of all earlier fields and a
\* stride equal to the bytes of all fields; the list (3, Float),
\* (4, UnsignedByte) gets offsets 0 and 12 and stride 16, and the single
\* field (2, Short) offset 0 and stride 4.
C16_LayoutBuilder ==
    op.name = "new_vertex_array_simple" =>
        /\ Len(LaidOut) = Len(given)
        /\ \A i \in 1..Len(given) :
            /\ LaidOut[i].index = i - 1
            /\ LaidOut[i].size = given[i].size
            /\ LaidOut[i].attribute_type = given[i].attribute_type
            /\ LaidOut[i].normalized = given[i].normalized
            /\ LaidOut[i].offset = BytesBefore(given, i - 1)
            /\ LaidOut[i].stride = BytesBefore(given, Len(given))
        /\ given = ExampleTwoFields =>
            /\ <<LaidOut[1].offset, LaidOut[2].offset>> = <<0, 12>>
            /\ \A i \in 1..2 : LaidOut[i].stride = 16
        /\ given = ExampleOneField =>
            /\ LaidOut[1].offset = 0
            /\ LaidOut[1].stride = 4

\* C16 witness: a vertex array was made for the list (3, Float),
\* (4, UnsignedByte), and the driver was told offset 12 and stride 16 for
\* attribute 1.
C16_Witness ==
    /\ op.name = "new_vertex_array_simple"
    /\ given = ExampleTwoFields
    /\ \E i \in 1..Len(calls) :
        /\ calls[i].fn = "VertexAttribPointer"
        /\ calls[i].id = 1
        /\ calls[i].args = <<4, "UNSIGNED_BYTE", TRUE, 16, 12>>

BytesTaken(layout, i) ==
    (IF i < Len(layout) THEN layout[i + 1].offset ELSE layout[i].stride) - layout[i].offset

\* C18 (size table): in a single-buffer layout every attribute takes up its
\* component count times the size of its type, which is 1 byte for Byte and
\* UnsignedByte, 2 for Short, UnsignedShort and HalfFloat, 4 for Int,
\* UnsignedInt, Float, Int2101010Rev and UnsignedInt2101010Rev, and 8 for
\* Double.
C18_SizeTable ==
    \A i \in DOMAIN LaidOut :
        LET type == LaidOut[i].attribute_type
            unit == CASE type \in {"Byte", "UnsignedByte"} -> 1
                      [] type \in {"Short", "UnsignedShort", "HalfFloat"} -> 2
                      [] type \in {"Int", "UnsignedInt", "Float", "Int2101010Rev",
                                   "UnsignedInt2101010Rev"} -> 4
                      [] type = "Double" -> 8
        IN  BytesTaken(LaidOut, i) = unit * LaidOut[i].size

\* C18 witness: a layout with three half floats followed by three doubles,
\* taking 6 and 24 bytes.
C18_Witness ==
    /\ Len(LaidOut) = 2
    /\ LaidOut[1].attribute_type = "HalfFloat"
    /\ LaidOut[2].attribute_type = "Double"
    /\ LaidOut[1].size = 3
    /\ LaidOut[2].size = 3
    /\ LaidOut[2].offset = 6
    /\ LaidOut[2].stride = 30

\* How many entries of a list of uniforms have a name.
Named(uniforms, name) == Cardinality({i \in DOMAIN uniforms : uniforms[i].name = name})

RECURSIVE BlockUniformCount(_)
BlockUniformCount(blocks) ==
    IF blocks = <<>> THEN 0
    ELSE Len(Head(blocks).uniforms) + BlockUniformCount(Tail(blocks))

\* C19 (uniform partition): get_uniform_info does not fail, and every active
\* uniform the driver reports is listed once, in globals and in no block
\* when its block index is negative, otherwise in the uniforms of the block
\* with that index and nowhere else; the lengths of globals and of all
\* blocks' uniforms add up to the number of active uniforms.
C19_UniformPartition ==
    op.name = "get_uniform_info" =>
        /\ ~panicked
        /\ Len(returned.blocks) = Len(given.blocks)
        /\ \A i \in DOMAIN given.uniforms :
            LET u == given.uniforms[i]
            IN  /\ Named(returned.globals, u.name) = (IF u.block_index < 0 THEN 1 ELSE 0)
                /\ \A b \in DOMAIN returned.blocks :
                    Named(returned.blocks[b].uniforms, u.name)
                        = (IF u.block_index = b - 1 THEN 1 ELSE 0)
        /\ Len(returned.globals) + BlockUniformCount(returned.blocks)
               = Len(given.uniforms)

\* C19 witness: a program with a uniform outside the blocks and one in a
\* block was asked for its uniforms, and one is listed in globals and one in
\* the block.
C19_Witness ==
    /\ op.name = "get_uniform_info"
    /\ Len(given.uniforms) = 2
    /\ Len(returned.globals) = 1
    /\ \E b \in DOMAIN returned.blocks : Len(returned.blocks[b].uniforms) = 1

\* C20 (nothing active): for a program without active uniforms and blocks
\* get_uniform_info returns empty globals and blocks, for a program without
\* active attributes get_attribute_info returns an empty list, and neither
\* fails.
C20_EmptyIntrospection ==
    /\ (op.name = "get_uniform_info" /\ given.uniforms = <<>> /\ given.blocks = <<>>) =>
        /\ ~panicked
        /\ returned = [globals |-> <<>>, blocks |-> <<>>]
    /\ (op.name = "get_attribute_info" /\ given.attributes = <<>>) =>
        /\ ~panicked
        /\ returned = [attributes |-> <<>>]

\* C20 witness: a program with neither uniforms nor blocks nor attributes was
\* asked for its uniforms, which took the two queries for the counts.
C20_Witness ==
    /\ op.name = "get_uniform_info"
    /\ given.uniforms = <<>>
    /\ given.blocks = <<>>
    /\ given.attributes = <<>>
    /\ ~panicked
    /\ returned.globals = <<>>
    /\ Len(calls) = 2

\* Every uniform a call of get_uniform_info reported, and every attribute a
\* call of get_attribute_info reported.
ReportedUniforms ==
    IF op.name = "get_uniform_info" /\ ~panicked
    THEN returned.globals \o Flatten([b \in DOMAIN returned.blocks |-> returned.blocks[b].uniforms])
    ELSE <<>>

ReportedAttributes ==
    IF op.name = "get_attribute_info" /\ ~panicked THEN returned.attributes ELSE <<>>

\* C21 (unrecognized type tags): introspection does not fail whatever type
\* tag the driver reports; the uniform or attribute is reported under its
\* name, with type UnrecognizedType carrying the tag when the tag is not one
\* the library has a variant for, and with a variant other than
\* UnrecognizedType when it is; two different recognized tags never map to
\* the same variant.
C21_UnrecognizedTag ==
    /\ op.name = "get_uniform_info" =>
        /\ ~panicked
        /\ Len(ReportedUniforms) = 1
        /\ ReportedUniforms[1].name = given.uniforms[1].name
        /\ LET tag == given.uniforms[1].uniform_type
               type == ReportedUniforms[1].uniform_type
           IN  IF tag \in RecognizedUniformTags
               THEN type[1] # "UnrecognizedType" /\ Len(type) = 1
               ELSE type = <<"UnrecognizedType", tag>>
    /\ op.name = "get_attribute_info" =>
        /\ ~panicked
        /\ Len(ReportedAttributes) = 1
        /\ ReportedAttributes[1].name = given.attributes[1].name
        /\ LET tag == given.attributes[1].gl_type
               type == ReportedAttributes[1].attribute_type
           IN  IF tag \in RecognizedAttributeTags
               THEN type[1] # "UnrecognizedType" /\ Len(type) = 1
               ELSE type = <<"UnrecognizedType", tag>>
    /\ \A t1, t2 \in RecognizedUniformTags :
        t1 # t2 => uniform_type_from_u32(t1) # uniform_type_from_u32(t2)
    /\ \A t1, t2 \in RecognizedAttributeTags :
        t1 # t2 => attribute_type_from_u32(t1) # attribute_type_from_u32(t2)

\* C21 witness: the driver reported a uniform in a block with the tag of
\* IMAGE_2D, which the library has no variant for, and get_uniform_info
\* listed it in the block as UnrecognizedType(0x904D).
C21_Witness ==
    /\ op.name = "get_uniform_info"
    /\ ~panicked
    /\ given.uniforms[1].uniform_type = "0x904D"
    /\ Len(returned.blocks) = 1
    /\ Len(returned.blocks[1].uniforms) = 1
    /\ returned.blocks[1].uniforms[1].uniform_type = <<"UnrecognizedType", "0x904D">>

\* C22 (compile failure is data) as stated: creating a shader never fails,
\* whatever the driver says of the source, and yields a handle to the new
\* shader.
C22_Original ==
    op.name = "new_shader" =>
        /\ ~panicked
        /\ op.r # None
        /\ resources[op.r].kind = "shader"
        /\ resources[op.r].handles = 1

\* C22, the failing case: the driver said the source did not compile, and
\* new_shader fetched the info log and failed; no shader was handed out.
C22_Witness ==
    /\ op.name = "new_shader"
    /\ panicked
    /\ Len(calls) = 6
    /\ calls[4] = Call("GetShaderiv", "COMPILE_STATUS", calls[1].id)
    /\ calls[6].fn = "GetShaderInfoLog"
    /\ OfKind(resources, "shader") = {}

\* C23 (link failure is data): new_program never fails, whatever the driver
\* will say of the linking: it creates the program, attaches every shader of
\* the list in order, links, makes no other driver call, and yields a handle
\* to the program. The link status and the log are read from the driver when
\* get_link_status and get_info_log are called, which return what the driver
\* reports and do not fail either.
C23_LinkFailureIsData ==
    /\ op.name = "new_program" =>
        /\ ~panicked
        /\ resources[op.r].kind = "program"
        /\ resources[op.r].handles = 1
        /\ LET id == resources[op.r].id
               shaders == resources[op.r].shaders
           IN  calls = <<Call("CreateProgram", "", id)>>
                       \o [i \in 1..Len(shaders) |->
                              CallA("AttachShader", "", id, <<resources[shaders[i]].id>>)]
                       \o <<Call("LinkProgram", "", id)>>
    /\ op.name = "get_link_status" =>
        /\ ~panicked
        /\ returned = (given.link_status # 0)
        /\ calls = <<CallA("GetProgramiv", "", resources[op.r].id, <<"LINK_STATUS">>)>>
    /\ op.name = "get_info_log" =>
        /\ ~panicked
        /\ returned \o <<0>> = (IF given.info_log = <<>> THEN <<0>> ELSE given.info_log)

\* C23 witness: a program was made of one shader, and get_link_status, asked
\* afterwards, said that it was not linked.
C23_Witness ==
    /\ op.name = "get_link_status"
    /\ ~panicked
    /\ returned = FALSE
    /\ given.link_status = 0
    /\ Len(resources[op.r].shaders) = 1
    /\ resources[op.r].handles = 1

\* The programs and vertex arrays that exist, and the shaders and buffers
\* each was created with.
Existing(kind) == {r \in Ids(resources) : resources[r].kind = kind /\ ~resources[r].dropped}
ShadersOf(p) == SeqToSet(resources[p].shaders)
BuffersOf(v) ==
    SeqToSet(AttributeBuffers(resources[v].vertex_attributes))
    \cup (IF resources[v].index_buffer = None THEN {} ELSE {resources[v].index_buffer})

DeletedNames(fn) == {calls[i].id : i \in {j \in DOMAIN calls : calls[j].fn = fn}}

\* C24 (a program keeps its shaders alive): as long as a program exists,
\* every shader it was created with exists and no delete-shader call has been
\* issued for it, also when the user holds no handle to it any more; a shader
\* that has been deleted has no handle left and no existing program was
\* created with it, and a call deletes a shader only when it has dropped the
\* last of these.
C24_ProgramKeepsShaders ==
    /\ \A p \in Existing("program") : \A sh \in ShadersOf(p) :
        /\ ~resources[sh].dropped
        /\ resources[sh].deleted = 0
    /\ \A sh \in Ids(resources) :
        (resources[sh].kind = "shader" /\ resources[sh].dropped) =>
            /\ resources[sh].handles = 0
            /\ \A p \in Existing("program") : sh \notin ShadersOf(p)
    /\ \A sh \in Existing("shader") :
        resources[sh].id \notin DeletedNames("DeleteShader")

\* C24 witness: the user dropped the last handle to a shader that an existing
\* program was created with, while the context is alive: the shader is still
\* there and no driver call was made.
C24_Witness ==
    /\ context_alive
    /\ op.name = "drop_handle"
    /\ resources[op.r].kind = "shader"
    /\ resources[op.r].handles = 0
    /\ ~resources[op.r].dropped
    /\ \E p \in Existing("program") : op.r \in ShadersOf(p)
    /\ calls = <<>>

\* C25 (a vertex array keeps its buffers alive): as long as a vertex array
\* exists, every vertex buffer its attributes refer to and its index buffer
\* exist and no delete-buffer call has been issued for them, also when the
\* user holds no handle to them any more.
C25_VertexArrayKeepsBuffers ==
    /\ \A v \in Existing("vao") : \A b \in BuffersOf(v) :
        /\ ~resources[b].dropped
        /\ resources[b].deleted = 0
    /\ \A b \in UNION {Existing(kind) : kind \in BufferKinds} :
        resources[b].id \notin DeletedNames("DeleteBuffers")

\* C25 witness: the user dropped the last handle to the vertex buffer an
\* existing vertex array refers to, while the context is alive: the buffer
\* is still there and no driver call was made.
C25_Witness ==
    /\ context_alive
    /\ op.name = "drop_handle"
    /\ resources[op.r].kind = "vbo"
    /\ resources[op.r].handles = 0
    /\ ~resources[op.r].dropped
    /\ resources[op.r].deleted = 0
    /\ calls = <<>>
    /\ \E v \in Existing("vao") :
        op.r \in SeqToSet(AttributeBuffers(resources[v].vertex_attributes))

\* C26 (driver errors are fatal): a call that reaches check_error fails
\* exactly when the error code the driver has pending is not zero, and the
\* failure message then carries that code and the file and line of the call
\* site; with a zero code the call goes on and nothing is reported.
C26_ErrorsFatal ==
    op.name = "check_error" =>
        /\ panicked <=> given.err_code # 0
        /\ calls = <<Call("GetError", "", 0)>>
        /\ IF given.err_code # 0
           THEN /\ returned.err_code = given.err_code
                /\ returned.file = given.file
                /\ returned.line = given.line
           ELSE returned = NoValue

\* C26 witness: the driver had the code of GL_STACK_OVERFLOW pending, an
\* error the library has no name for, after a buffer had been made, and the
\* call failed with the code and the call site in its message.
C26_Witness ==
    /\ op.name = "check_error"
    /\ panicked
    /\ given.err_code = 1283
    /\ Len(resources) > 0
    /\ returned = [message |-> "Unrecognized error code", err_code |-> 1283,
                   file |-> given.file, line |-> given.line]

TrackedCreationOps ==
    {"new_vertex_buffer", "new_index_buffer", "new_uniform_buffer",
     "new_vertex_array", "new_vertex_array_simple", "new_program"}

\* C27 (identifier overflow is fatal), as stated: a creation call made with
\* the generator's counter at u32::MAX aborts; it never advances the counter to
\* 0 and hands the resource the id 0.
C27_Original ==
    [][(counter = U32Max /\ op'.name \in TrackedCreationOps)
          => (panicked' /\ counter' = counter /\ resources' = resources)]_vars

\* C27 failing case: a creation call has returned normally with the counter
\* wrapped to 0, and the resource it made carries the id 0.
C27_Witness ==
    /\ op.name \in TrackedCreationOps
    /\ ~panicked
    /\ counter = 0
    /\ op.r # None /\ resources[op.r].tracker_id = 0

EditingBinds == {i \in DOMAIN tlog : tlog[i].fn = "bind_for_editing"}
RenderingBinds == {i \in DOMAIN tlog : tlog[i].fn = "bind_for_rendering"}

\* C28 (editing keeps the render target): after bind_for_editing(R) the
\* remembered render target of the tracker is what it was before the call,
\* for every resource R and every prior state; of the tracker's fields only
\* currently_bound may differ.
C28_EditingKeepsTarget ==
    \A i \in EditingBinds :
        LET e == tlog[i]
        IN  /\ RenderTarget(e.tracker, e.after) = RenderTarget(e.tracker, e.before)
            /\ e.after = [e.before EXCEPT !.simple_tracker.currently_bound =
                                             CurrentlyBound(e.tracker, e.after)]

\* C28 witness: with resource A remembered as the render target, another
\* resource R was bound for editing; the driver bind was issued, currently_bound
\* became R's id, and the render target is still A.
C28_Witness ==
    \E i \in EditingBinds :
        LET e == tlog[i]
            target == RenderTarget(e.tracker, e.before)
        IN  /\ target # None /\ target # e.r
            /\ Issued(e) = <<BindCall(resources[e.r])>>
            /\ CurrentlyBound(e.tracker, e.before) # CurrentlyBound(e.tracker, e.after)
            /\ CurrentlyBound(e.tracker, e.after) = get_id(resources, e.r)
            /\ RenderTarget(e.tracker, e.after) = target

\* C29 (rendering bind always retargets): after bind_for_rendering(R) the
\* tracker's currently_bound is R's id and its render target is R, whether the
\* driver bind was issued or elided because R was already currently bound.
C29_RenderingBindRetargets ==
    \A i \in RenderingBinds :
        LET e == tlog[i]
        IN  /\ CurrentlyBound(e.tracker, e.after) = get_id(resources, e.r)
            /\ RenderTarget(e.tracker, e.after) = e.r

\* C29 witness: R was currently bound (by an editing bind) without being the
\* render target; bind_for_rendering(R) issued no driver bind and R is the
\* render target afterwards.
C29_Witness ==
    \E i \in RenderingBinds :
        LET e == tlog[i]
        IN  /\ CurrentlyBound(e.tracker, e.before) = get_id(resources, e.r)
            /\ RenderTarget(e.tracker, e.before) # e.r
            /\ Issued(e) = <<>>
            /\ RenderTarget(e.tracker, e.after) = e.r
            /\ CurrentlyBound(e.tracker, e.after) = get_id(resources, e.r)

\* A tracker call made on a tracker as constructed: nothing has been bound
\* through it and its currently_bound is the zero id.
OnFreshTracker(e) ==
    /\ e.prev = None
    /\ CurrentlyBound(e.tracker, e.before) = SimpleBindingTracker_new.currently_bound
    /\ RenderTarget(e.tracker, e.before) = None

\* C30 (the zero id is reserved), as stated: no resource is given the id 0,
\* and the first bind of any resource on a freshly constructed tracker issues
\* the driver bind.
C30_Original ==
    /\ \A r \in TrackedResources : get_id(resources, r) # 0
    /\ \A i \in BindEvents :
        LET e == tlog[i]
        IN  OnFreshTracker(e) => Issued(e) = <<BindCall(resources[e.r])>>

\* C30 failing case: a buffer created after the counter wrapped carries the
\* id 0, and its first bind, on a tracker that has never bound anything,
\* issued no driver call; the driver's binding point still holds nothing.
C30_Witness ==
    /\ op.name = "edit_uniform_buffer"
    /\ get_id(resources, op.r) = 0
    /\ Len(tlog) = 1 /\ OnFreshTracker(tlog[1])
    /\ calls = <<>>
    /\ gl.UNIFORM_BUFFER = 0

ArrayOps == {"new_vertex_array", "new_vertex_array_simple"}

\* The driver's binding points after the first i calls of cs, starting from
\* the binding points g.
RECURSIVE DriverAfter(_, _, _)
DriverAfter(g, cs, i) ==
    IF i = 0 THEN g
    ELSE LET before == DriverAfter(g, cs, i - 1)
         IN  IF cs[i].fn \in BindFns
             THEN [before EXCEPT ![cs[i].target] = cs[i].id]
             ELSE before

\* Enable and describe, for each attribute in list order.
RECURSIVE DescribeCalls(_)
DescribeCalls(attributes) ==
    IF attributes = <<>> THEN <<>>
    ELSE LET a == Head(attributes)
         IN  <<Call("EnableVertexAttribArray", "", a.index),
               CallA("VertexAttribPointer", "", a.index,
                     <<a.size, attribute_to_gl_type(a.attribute_type), a.normalized,
                       a.stride, a.offset>>)>>
             \o DescribeCalls(Tail(attributes))

RECURSIVE Without(_, _)
Without(cs, c) ==
    IF cs = <<>> THEN <<>>
    ELSE IF Head(cs) \in c THEN Without(Tail(cs), c)
         ELSE <<Head(cs)>> \o Without(Tail(cs), c)

VertexBufferBinds(res) ==
    {Call("BindBuffer", "ARRAY_BUFFER", res[r].id) : r \in {x \in Ids(res) : res[x].kind = "vbo"}}

\* C31 (order of vertex array creation): a call that creates a vertex array
\* allocates it, binds it, then enables and describes each attribute in list
\* order, and lastly binds the index buffer if there is one, with binds of
\* vertex buffers in between only; and at every describe-attribute call the
\* driver has the new vertex array and that attribute's own buffer bound.
C31_CreationOrder ==
    [][(op'.name \in ArrayOps /\ ~panicked') =>
          LET rec == resources'[op'.r]
              cs == calls'
              attrs == rec.vertex_attributes
          IN  /\ Without(cs, VertexBufferBinds(resources')) =
                     <<Call("GenVertexArrays", "", rec.id), BindCall(rec)>>
                     \o DescribeCalls(attrs)
                     \o (IF rec.index_buffer = None THEN <<>>
                         ELSE <<BindCall(resources'[rec.index_buffer])>>)
              /\ \A i \in DOMAIN cs :
                    cs[i].fn = "VertexAttribPointer" =>
                        LET k == Len(SelectCalls(SubSeq(cs, 1, i), {"VertexAttribPointer"}))
                            bound == DriverAfter(gl, cs, i)
                        IN  /\ bound.VERTEX_ARRAY = rec.id
                            /\ bound.ARRAY_BUFFER = resources'[attrs[k].vertex_buffer].id]_vars

\* C31 witness: a vertex array was created with two attributes on two
\* different vertex buffers; the first buffer was already bound, so its bind
\* was elided, and the second buffer's bind was issued between the two
\* descriptions.
C31_Witness ==
    /\ op.name = "new_vertex_array" /\ ~panicked
    /\ LET rec == resources[op.r]
           attrs == rec.vertex_attributes
       IN  /\ Len(attrs) = 2
           /\ attrs[1].vertex_buffer # attrs[2].vertex_buffer
           /\ Len(SelectCalls(calls, {"BindBuffer"})) = 1
           /\ calls[5] = BindCall(resources[attrs[2].vertex_buffer])
           /\ gl.ARRAY_BUFFER = resources[attrs[2].vertex_buffer].id
           /\ gl.VERTEX_ARRAY = rec.id

\* C32 (block uniforms follow the resolved index), as stated: in what
\* get_uniform_info returns, every uniform the driver reports with a
\* non-negative block index is listed once under the InterfaceBlock whose
\* `index` field equals that block index, and under no other block, whatever
\* position that block has in the list.
C32_Original ==
    (op.name = "get_uniform_info" /\ ~panicked) =>
        \A i \in DOMAIN given.uniforms :
            LET u == given.uniforms[i]
            IN  u.block_index >= 0 =>
                    \A b \in DOMAIN returned.blocks :
                        Named(returned.blocks[b].uniforms, u.name)
                            = (IF returned.blocks[b].index = u.block_index THEN 1 ELSE 0)

\* C32 failing case: the driver enumerated two blocks and resolved the name
\* of the first to index 1; the uniform reported with block index 1 is listed
\* under the second InterfaceBlock of the list, whose `index` field is 0.
C32_Witness ==
    /\ op.name = "get_uniform_info" /\ ~panicked
    /\ Len(returned.blocks) = 2
    /\ returned.blocks[1].index = 1 /\ returned.blocks[2].index = 0
    /\ \E i \in DOMAIN given.uniforms :
        /\ given.uniforms[i].block_index = 1
        /\ Named(returned.blocks[2].uniforms, given.uniforms[i].name) = 1
        /\ Named(returned.blocks[1].uniforms, given.uniforms[i].name) = 0

\* The arguments glBufferSubData(target, offset, size, data) received.
SubDataOffset(c) == c.args[1]
SubDataSize(c) == c.args[2]

\* C33 (partial upload), as stated: sub_data(data, byte_offset) makes one
\* driver call, glBufferSubData on the editor's target, whose offset argument
\* is byte_offset and whose size argument is the byte length of data,
\* size_of(D) * data.len(); it does not call glBufferData.
C33_Original ==
    op.name = "sub_data" =>
        /\ Len(calls) = 1
        /\ calls[1].fn = "BufferSubData"
        /\ calls[1].target = EditorTarget
        /\ SubDataOffset(calls[1]) = given.byte_offset
        /\ SubDataSize(calls[1]) = given.size_of * given.len

\* C33 failing case: two 4-byte elements were uploaded at byte offset 12; the
\* driver was asked to replace 12 bytes starting at offset 8.
C33_Witness ==
    /\ op.name = "sub_data"
    /\ given.size_of = 4 /\ given.len = 2 /\ given.byte_offset = 12
    /\ calls[1].fn = "BufferSubData"
    /\ SubDataOffset(calls[1]) = 8
    /\ SubDataSize(calls[1]) = 12

\* The driver binding point the binds of a tracker go to.
TrackerTarget(name) ==
    CASE name = "vbo_tracker" -> "ARRAY_BUFFER"
      [] name = "ubo_tracker" -> "UNIFORM_BUFFER"
      [] name = "vao_tracker" -> "VERTEX_ARRAY"
      [] name = "program_tracker" -> "PROGRAM"

\* C34 (cache coherence): for each tracker of the Context, currently_bound is
\* the id of the resource that tracker most recently passed to the driver
\* bind, and 0 if it has passed none; and as long as that resource has not
\* been deleted, it is what the driver has bound at the tracker's target. The
\* same holds of the tracker before and after every single tracker call.
C34_CacheCoherence ==
    /\ \A name \in TrackerNames :
        IF last_bound[name] = None
        THEN /\ CurrentlyBound(name, TrackerNow(name)) = 0
             /\ gl[TrackerTarget(name)] = 0
        ELSE /\ CurrentlyBound(name, TrackerNow(name)) = get_id(resources, last_bound[name])
             /\ resources[last_bound[name]].deleted = 0 =>
                    gl[TrackerTarget(name)] = resources[last_bound[name]].id
    /\ \A i \in DOMAIN tlog :
        LET e == tlog[i]
        IN  /\ CurrentlyBound(e.tracker, e.before) =
                    (IF e.prev = None THEN 0 ELSE get_id(resources, e.prev))
            /\ Issued(e) # <<>> =>
                    \E r \in TrackedResources :
                        /\ Issued(e) = <<BindCall(resources[r])>>
                        /\ CurrentlyBound(e.tracker, e.after) = get_id(resources, r)
            /\ Issued(e) = <<>> =>
                    CurrentlyBound(e.tracker, e.after) = CurrentlyBound(e.tracker, e.before)

\* C34 witness: vertex array A is the render target, vertex array B was bound
\* for editing after it, and the restore before a draw has bound A again: the
\* tracker went A, B, A and each time the driver was told.
C34_Witness ==
    /\ op.name \in DrawOps
    /\ \E i \in RestoreEvents :
        LET e == tlog[i]
        IN  /\ e.tracker = "vao_tracker"
            /\ e.prev # None /\ e.prev # last_bound.vao_tracker
            /\ Issued(e) = <<BindCall(resources[last_bound.vao_tracker])>>
    /\ vao_tracker.bound_for_rendering = last_bound.vao_tracker
    /\ CurrentlyBound("vao_tracker", vao_tracker) = get_id(resources, last_bound.vao_tracker)
    /\ gl.VERTEX_ARRAY = resources[last_bound.vao_tracker].id

\* C35 (dropping the Context deletes nothing): the drop of the Context makes
\* no driver delete call (no driver call at all); the flag is false and the
\* trackers remember nothing afterwards, and whatever was destroyed by the
\* trackers letting go of it was destroyed without a delete.
C35_ContextDropDeletesNothing ==
    op.name = "drop_context" =>
        /\ SelectCalls(calls, DeleteFns) = <<>>
        /\ calls = <<>>
        /\ ~context_alive
        /\ RenderTarget("program_tracker", program_tracker) = None
        /\ RenderTarget("vao_tracker", vao_tracker) = None
        /\ \A r \in Ids(resources) :
            (resources[r].handles = 0 /\ CompositeRefs(r) = 0) => resources[r].dropped

\* C35 witness: the Context was dropped while a render tracker was the only
\* owner left of a program; the program, and with it a shader only that
\* program owned, is destroyed by the drop and has never been deleted.
C35_Witness ==
    /\ op.name = "drop_context"
    /\ \E p \in Ids(resources), sh \in Ids(resources) :
        /\ resources[p].kind = "program" /\ resources[sh].kind = "shader"
        /\ resources[p].shaders = <<sh>>
        /\ resources[p].handles = 0 /\ resources[sh].handles = 0
        /\ resources[p].dropped /\ resources[p].deleted = 0
        /\ resources[sh].dropped /\ resources[sh].deleted = 0

UseOps == {"use_vertex_array", "use_program"}

\* The render tracker a use call of the Renderer binds on.
UseTracker(name) ==
    IF name = "use_vertex_array" THEN "vao_tracker" ELSE "program_tracker"

\* C36 (the render target outlives its handles): a resource that is the
\* remembered render target of a tracker of a live Context exists, whether or
\* not the user holds a handle to it. A step that destroys it while the
\* Context stays alive is a use call on that tracker for a different
\* resource, and that call makes the driver delete; a use call for the
\* target itself leaves it in place and deletes nothing.
C36_TargetOutlivesHandles ==
    [][\A name \in RenderTrackerNames :
          LET r == RenderTarget(name, TrackerNow(name))
          IN  (r # None /\ context_alive) =>
                /\ ~resources[r].dropped
                /\ (resources'[r].dropped /\ context_alive') =>
                      /\ op'.name \in UseOps /\ UseTracker(op'.name) = name
                      /\ op'.r # r
                      /\ Call(DeleteFn(resources[r].kind), "", resources[r].id)
                            \in SeqToSet(calls')
                      /\ resources'[r].deleted = 1
                /\ (op'.name \in UseOps /\ op'.r = r) =>
                      /\ ~resources'[r].dropped
                      /\ SelectCalls(calls', DeleteFns) = <<>>
                /\ op'.name = "drop_handle" => ~resources'[r].dropped]_vars

\* C36 witness: program A was selected for rendering and the user dropped the
\* last handle to it; A stayed, and was deleted by the use_program call that
\* selected program B.
C36_Witness ==
    /\ op.name = "use_program"
    /\ context_alive
    /\ \E a \in Ids(resources) :
        /\ a # op.r
        /\ resources[a].kind = "program"
        /\ resources[a].handles = 0
        /\ resources[a].dropped /\ resources[a].deleted = 1
        /\ calls = <<BindCall(resources[op.r]), Call("DeleteProgram", "", resources[a].id)>>
    /\ program_tracker.bound_for_rendering = op.r

\* C37 (restore leaves the render target alone): restore_rendering_state
\* leaves the tracker's render target as it was; on a tracker with no render
\* target it issues no driver bind and leaves the tracker unchanged; and in a
\* draw call that follows a draw call at once, so that each restore comes
\* right after a restore on the same tracker, no restore issues a bind.
C37_RestoreKeepsTarget ==
    [][\A i \in DOMAIN tlog' :
          LET e == tlog'[i]
          IN  e.fn = "restore_rendering_state" =>
                /\ RenderTarget(e.tracker, e.after) = RenderTarget(e.tracker, e.before)
                /\ RenderTarget(e.tracker, e.before) = None =>
                      /\ Issued(e) = <<>>
                      /\ e.after = e.before
                /\ op.name \in DrawOps => (Issued(e) = <<>> /\ e.after = e.before)]_vars

\* C37 witness: with two vertex arrays, one of them the render target and
\* already bound, a draw call restored it without a driver bind and the target
\* is unchanged; the program tracker never had a render target and its
\* restore did nothing.
C37_Witness ==
    /\ op.name \in DrawOps
    /\ calls = <<DrawCall(op.name)>>
    /\ Len(tlog) = 2
    /\ tlog[1].tracker = "vao_tracker" /\ tlog[1].fn = "restore_rendering_state"
    /\ RenderTarget("vao_tracker", tlog[1].before) # None
    /\ RenderTarget("vao_tracker", tlog[1].after) = RenderTarget("vao_tracker", tlog[1].before)
    /\ vao_tracker.bound_for_rendering # None
    /\ last_bound.vao_tracker = vao_tracker.bound_for_rendering
    /\ \E v \in Ids(resources) :
        resources[v].kind = "vao" /\ v # vao_tracker.bound_for_rendering
    /\ program_tracker.bound_for_rendering = None
    /\ tlog[2].tracker = "program_tracker" /\ tlog[2].after = tlog[2].before

\* The resources of the Context the last library call was made on, and whether
\* that Context itself has been dropped.
ResourcesOf(context) == IF context = 1 THEN resources ELSE other.resources
DroppedContext(context) == IF context = 1 THEN context_dropped ELSE other.context_dropped

\* C38: liveness flags are per Context. When the drop of a handle destroys a
\* resource, the driver delete is issued exactly when the Context the resource
\* was created from has not been dropped, whatever happened to the other
\* Context; and each Context's flag is cleared by the drop of that Context only.
C38_FlagsPerContext ==
    /\ context_alive = ~context_dropped
    /\ other.created => other.context_alive = ~other.context_dropped
    /\ (op.name = "drop_handle" /\ ResourcesOf(op.context)[op.r].dropped)
         => LET res == ResourcesOf(op.context)[op.r]
            IN  IF DroppedContext(op.context)
                THEN calls = <<>> /\ res.deleted = 0
                ELSE /\ Len(calls) = 1
                     /\ calls[1].fn = DeleteFn(res.kind)
                     /\ calls[1].id = res.id
                     /\ res.deleted = 1

\* The second Context has been dropped and a buffer created from it was
\* destroyed afterwards without a driver delete; the first Context is alive and
\* the drop of the last handle to one of its buffers has just issued
\* glDeleteBuffers.
C38_Witness ==
    /\ other.context_dropped
    /\ ~context_dropped
    /\ \E r \in Ids(other.resources) :
          other.resources[r].dropped /\ other.resources[r].deleted = 0
    /\ op.name = "drop_handle"
    /\ op.context = 1
    /\ resources[op.r].dropped
    /\ Len(calls) = 1
    /\ calls[1].fn = "DeleteBuffers"

====
